---- MODULE Spec2Model ----
(***************************************************************************)
(* workchat: the message store with its REST handlers                      *)
(* (src/workchat/api/messages.py) and the SSE connection registry with its *)
(* stream tasks and broadcasters (src/workchat/events.py).                 *)
(*                                                                         *)
(* The two halves share no state in the source (no handler of              *)
(* api/messages.py calls a broadcast), so each has its own specification:  *)
(*   Spec        the message store and the request handlers                *)
(*   SpecEvents  the connection registry, streams and broadcasts           *)
(***************************************************************************)
EXTENDS Integers, Sequences, FiniteSets, TLC

\* ------------------------------------------------------------------ bounds

\* Messages ever constructed (ids are allocated 1..MaxMessages).
MaxMessages == 1
\* No edit is started on a message whose version has reached this value.
MaxVersion == 2
\* Event streams ever opened (connection ids 1..MaxStreams).
MaxStreams == 2
\* Broadcast calls ever made.
MaxBroadcasts == 3
\* Capacity of a connection's outbox, standing for maxsize=100 (events.py:35).
QueueMaxSize == 2

\* Rows the audit log holds at most.
MaxAudit == 2
MaxPosts == 2
MaxChannels == 3
MaxChain == 3
\* Connection ids one user's list holds at most in the direct calls of connect.
MaxListed == 2
\* Rows of the message table a thread is read from.
MaxThreadRows == 3

\* --------------------------------------------------------------- constants

Null == "null"

\* None for an Optional[UUID] (ids are 1..MaxMessages)
NoId == 0

\* None for an Optional[datetime]
NoTime == 0

\* datetime.now(timezone.utc): the model keeps one instant, timestamps being
\* opaque to the handlers.
Now == 1

Orgs == {"orgA", "orgB"}

Users == {"u1", "u2", "u3"}

\* The users who post messages: u1, and u3 of the other organization. u2
\* stands for the other members of u1's organization, and only edits.
Posters == {"u1", "u3"}

\* user.org_id of the authenticated user (u1, u2 share an organization)
UserOrg(u) == IF u = "u3" THEN "orgB" ELSE "orgA"

\* The channel table (never written by api/messages.py): two channels, of
\* u1's and u2's organization. chX names no row.
Channels == {"chA", "chB"}

\* The channel ids of requests: one channel and an id that names no row.
ChannelIds == {"chA", "chX"}

\* The channel ids of requests that start or answer threads.
ThreadChannelIds == Channels \cup {"chX"}

\* channel.org_id
ChannelOrg(c) == "orgA"

\* Request handlers running concurrently (FastAPI runs the sync endpoints of
\* api/messages.py in a thread pool, each with its own Session).
Handlers == {"h1", "h2"}

MsgIds == 1..MaxMessages

PostIds == 1..MaxPosts

\* Request bodies, as sequences of characters.
RawBodies == {<<"x">>, <<" ", "y", " ">>}

\* Request bodies with the empty string and a string of one space.
AnyBodies == RawBodies \cup {<<>>, <<" ">>}

\* Field(..., min_length=1, max_length=10000) of MessageBase and MessageUpdate
MinBodyLength == 1
MaxBodyLength == 10000

\* The request model accepts the body: its length, untrimmed, is in range.
ValidBody(body) == Len(body) >= MinBodyLength /\ Len(body) <= MaxBodyLength

\* ------------------------------------------------------------ str.strip()

RECURSIVE LStrip(_)
LStrip(s) == IF s # <<>> /\ Head(s) = " " THEN LStrip(Tail(s)) ELSE s

RECURSIVE RStrip(_)
RStrip(s) ==
  IF s # <<>> /\ s[Len(s)] = " " THEN RStrip(SubSeq(s, 1, Len(s) - 1)) ELSE s

Strip(s) == RStrip(LStrip(s))

\* ---------------------------------------------------------------- state

VARIABLES
  db,                \* committed rows of table message: id -> row
  nextId,            \* next fresh primary key (uuid4 in the source)
  hs,                \* per handler: the request, its position, its Session's object
  audit,             \* committed rows of table auditlog, in insertion order
  reply,             \* the latest answer of a query endpoint or an MCP tool
  connections,       \* ConnectionManager.connections: connection_id -> queue
  connection_orgs,   \* ConnectionManager.connection_orgs: connection_id -> org_id
  user_connections,  \* ConnectionManager.user_connections: user_id -> list of ids
  queues,            \* the asyncio.Queue objects: queue -> items
  streams,           \* per event_stream_generator: position, emitted items
  bc,                \* per broadcast call: scope, snapshot, position
  channels           \* rows of table channel written by create_channel

msgVars == <<db, nextId, hs, audit, reply>>

regVars == <<connections, connection_orgs, user_connections, queues, streams, bc>>

vars == <<db, nextId, hs, audit, reply, connections, connection_orgs,
          user_connections, queues, streams, bc, channels>>

\* ------------------------------------------------- message store handlers

NoRow == [id |-> NoId, channel_id |-> Null, user_id |-> Null, thread_id |-> NoId,
          body |-> <<>>, created_at |-> NoTime, edited_at |-> NoTime, version |-> 0]

\* The detail strings of the HTTPExceptions of api/messages.py.
\* The detail of FastAPI's 422 for a request that fails its schema.
RequestInvalid == "validation error"

ChannelNotFound == "Channel not found"

ThreadNotFound == "Thread not found in this channel"

MessageNotFound == "Message not found"

NotYourMessage == "You can only edit your own messages"

ModifiedByAnother == "Message was modified by another user. Current version is"

\* A handler between requests. While a request runs, obj is the object held
\* by its Session and user the requesting user. Once it has responded, the
\* slot holds the response (status; msg: the detail string of an error;
\* detail: the row's version for 200 and 201, the version named in the detail
\* for 409) and, of the request, the message id and an edit's expected
\* version. found tells whether an edit's SELECT returned a row.
IdleHandler == [op |-> "none", pc |-> "idle", message_id |-> NoId, version |-> 0,
                user |-> Null, found |-> FALSE,
                obj |-> NoRow, status |-> 0, msg |-> Null, detail |-> 0]

\* A handler slot takes a new request when it is not in the middle of one.
Free(h) == hs[h].pc \in {"idle", "done"}

\* raise HTTPException(status_code=code, ...)
Fail(h, r, code, msg, det) ==
  hs' = [hs EXCEPT ![h] = [r EXCEPT !.pc = "done", !.obj = NoRow, !.user = Null,
                                    !.status = code, !.msg = msg, !.detail = det]]

\* return message (response_model=MessageRead), after session.refresh(message)
Return(h, r, code, row) ==
  hs' = [hs EXCEPT ![h] = [r EXCEPT !.pc = "done", !.obj = NoRow, !.user = Null,
                                    !.status = code, !.detail = row.version]]

\* Message(...) of models/message.py and models/base.py: the defaults.
NewMessage(id, ch, u, tid, body) ==
  [id |-> id, channel_id |-> ch, user_id |-> u, thread_id |-> tid,
   body |-> Strip(body), created_at |-> Now, edited_at |-> NoTime, version |-> 1]

\* A thread check that finds the thread in any channel.
thread_root_anywhere(table, tid, ch) == tid \in DOMAIN table

\* select(Message).where(Message.id == thread_id,
\* Message.channel_id == channel_id).first() finds a row.
thread_root(table, tid, ch) ==
  tid \in DOMAIN table /\ table[tid].channel_id = ch

\* create_message, up to the construction of the Message object.
create_begin(h, u, ch, body, tid) ==
  /\ Free(h)
  /\ LET r == [IdleHandler EXCEPT !.op = "create"]
     IN  IF ~ValidBody(body)
         THEN /\ Fail(h, r, 422, RequestInvalid, 0)
              /\ UNCHANGED nextId
         ELSE IF ch \notin Channels \/ ChannelOrg(ch) # UserOrg(u)
         THEN /\ Fail(h, r, 404, ChannelNotFound, 0)
              /\ UNCHANGED nextId
         ELSE IF tid # NoId /\ ~thread_root(db, tid, ch)
         THEN /\ Fail(h, r, 404, ThreadNotFound, 0)
              /\ UNCHANGED nextId
         ELSE /\ hs' = [hs EXCEPT ![h] =
                   [r EXCEPT !.pc = "insert", !.message_id = nextId,
                             !.obj = NewMessage(nextId, ch, u, tid, body)]]
              /\ nextId' = nextId + 1
  /\ UNCHANGED <<db, audit, reply>>
  /\ UNCHANGED <<regVars, channels>>

\* session.add(message); session.commit(): the INSERT is committed. A reply
\* is then refreshed and returned.
create_insert(h) ==
  /\ hs[h].op = "create"
  /\ hs[h].pc = "insert"
  /\ LET r == hs[h]
         m == r.message_id
     IN  /\ db' = (m :> r.obj) @@ db
         /\ IF r.obj.thread_id = NoId
            THEN hs' = [hs EXCEPT ![h] = [r EXCEPT !.pc = "patch", !.obj = NoRow]]
            ELSE Return(h, r, 201, db'[m])
  /\ UNCHANGED <<nextId, audit, reply>>
  /\ UNCHANGED <<regVars, channels>>

\* Root message: message.thread_id = message.id; session.commit() (an UPDATE
\* of the one changed column, in a second transaction), refresh, return.
create_patch(h) ==
  /\ hs[h].op = "create"
  /\ hs[h].pc = "patch"
  /\ LET r == hs[h]
         m == r.message_id
     IN  /\ db' = [db EXCEPT ![m].thread_id = m]
         /\ Return(h, r, 201, db'[m])
  /\ UNCHANGED <<nextId, audit, reply>>
  /\ UNCHANGED <<regVars, channels>>

\* A check that rejects only an expected version older than the row's.
VersionConflictOlderOnly(message, message_data) ==
  message.version > message_data.version

\* The optimistic locking check: message.version != message_data.version
VersionConflict(message, message_data) == message.version # message_data.version

\* An update_message without the authorship check.
AuthorNotChecked(message, u) == FALSE

\* An authorship check that only tells organizations apart.
NotAuthorOfOrg(message, u) == UserOrg(message.user_id) # UserOrg(u)

\* Only allow users to edit their own messages: message.user_id != user.id
NotAuthor(message, u) == message.user_id # u

\* A refusal that tells a message of another organization from a missing one.
DenyForeignAsForbidden(h, r) == Fail(h, r, 403, NotYourMessage, 0)

\* The message's channel is not one of the user's organization: 404 with the
\* detail of a missing message.
DenyForeign(h, r) == Fail(h, r, 404, MessageNotFound, 0)

\* update_message up to session.commit(): SELECT the message, then (on the
\* object read, with no further read of the message table) channel access,
\* authorship, the version check and the changes to the Session's object,
\* which are not yet written.
update_select(h, u, m, body, ver) ==
  /\ Free(h)
  /\ LET r == [IdleHandler EXCEPT !.op = "edit", !.message_id = m, !.version = ver]
     IN  IF ~ValidBody(body)
         THEN Fail(h, r, 422, RequestInvalid, 0)
         ELSE IF m \notin DOMAIN db
         THEN Fail(h, r, 404, MessageNotFound, 0)
         ELSE LET message == db[m]
                  q == [r EXCEPT !.found = TRUE]
              IN  IF ChannelOrg(message.channel_id) # UserOrg(u)
                  THEN DenyForeign(h, q)
                  ELSE IF NotAuthor(message, u)
                  THEN Fail(h, q, 403, NotYourMessage, 0)
                  ELSE IF VersionConflict(message, q)
                  THEN Fail(h, q, 409, ModifiedByAnother, message.version)
                  ELSE /\ message.version < MaxVersion
                       /\ hs' = [hs EXCEPT ![h] =
                            [q EXCEPT !.pc = "commit", !.user = u,
                                      !.obj = [message EXCEPT !.body = Strip(body),
                                                              !.edited_at = Now,
                                                              !.version = @ + 1]]]
  /\ UNCHANGED <<db, nextId, audit, reply>>
  /\ UNCHANGED <<regVars, channels>>

\* An UPDATE that writes every column of the Session's object to the row.
flush_every_column(row, obj) == obj

\* The flush of an edited message: the UPDATE sets the columns whose
\* attribute was assigned (body, edited_at, version) and no other.
flush(row, obj) ==
  [row EXCEPT !.body = obj.body, !.edited_at = obj.edited_at,
              !.version = obj.version]

\* session.commit(): UPDATE message SET body, edited_at, version WHERE id = ?
\* (the mapper has no version_id_col: the row's version is not tested), then
\* session.refresh(message) and the 200 response.
update_commit(h) ==
  /\ hs[h].op = "edit"
  /\ hs[h].pc = "commit"
  /\ LET r == hs[h]
         m == r.message_id
     IN  /\ db' = [db EXCEPT ![m] = flush(@, r.obj)]
         /\ Return(h, r, 200, db'[m])
  /\ UNCHANGED <<nextId, audit, reply>>
  /\ UNCHANGED <<regVars, channels>>

\* -------------------------------------------------------------- audit log

\* No query has been answered yet.
NoReply == [kind |-> "none"]

\* str(uuid), datetime.isoformat(): the JSON-safe forms of entity_to_dict.
Str(x) == IF x = NoId THEN <<"none">> ELSE <<"str", x>>

\* AuditService.entity_to_dict on a Message: UUIDs and datetimes converted.
entity_to_dict(e) ==
  [id |-> Str(e.id), channel_id |-> <<"str", e.channel_id>>,
   user_id |-> <<"str", e.user_id>>, thread_id |-> Str(e.thread_id),
   body |-> e.body, created_at |-> <<"iso", e.created_at>>,
   edited_at |-> IF e.edited_at = NoTime THEN <<"none">> ELSE <<"iso", e.edited_at>>,
   version |-> e.version]

\* valid_actions of AuditService._validate_audit_params
ValidActions == {"create", "update", "delete"}

\* The entity types of the model that str.strip() leaves empty.
BlankTypes == {"", " ", "  "}

\* len(entity_type) > 50
MaxEntityTypeLength == 50

\* A validation that looks at the action only.
validate_action_only(entity_type, action) == action \in ValidActions

\* AuditService._validate_audit_params: the parameters pass (no
\* HTTPException(400) is raised).
validate_audit_params(entity_type, action) ==
  /\ action \in ValidActions
  /\ ~(entity_type = "" \/ entity_type \in BlankTypes)
  /\ ~(Len(entity_type) > MaxEntityTypeLength)

\* AuditLog(...): a row of table auditlog (the request metadata is left out).
AuditLog(entity_type, entity_id, user_id, org_id, action, old_values, new_values) ==
  [entity_type |-> entity_type, entity_id |-> entity_id, user_id |-> user_id,
   org_id |-> org_id, action |-> action,
   old_values |-> old_values, new_values |-> new_values]

\* AuditService.create_audit_log on a Session whose pending objects are
\* session: validation, then session.add(audit_log).
create_audit_log(session, entity_type, entity_id, u, action) ==
  IF validate_audit_params(entity_type, action)
  THEN [raised |-> FALSE,
        session |-> Append(session, AuditLog(entity_type, entity_id, u, UserOrg(u),
                                             action, Null, Null))]
  ELSE [raised |-> TRUE, session |-> session]

\* old_data.get(field): None for a field the snapshot lacks.
Get(d, f) == IF f \in DOMAIN d THEN d[f] ELSE <<"none">>

\* A diff that lists every field of the entity, changed or not.
track_update_every_field(entity, old_data, u) ==
  LET new_data == entity_to_dict(entity)
      row == AuditLog("message", entity.id, u, UserOrg(u), "update",
                      [f \in DOMAIN new_data |-> Get(old_data, f)], new_data)
  IN  [staged |-> <<row>>, returned |-> row]

\* AuditService.track_update for a Message: the fields of the entity whose
\* value differs from old_data's, then create_audit_log (session.add) unless
\* there is none. staged: what was added to the Session; returned: the
\* function's value.
track_update(entity, old_data, u) ==
  LET new_data == entity_to_dict(entity)
      changed == {f \in DOMAIN new_data : Get(old_data, f) # new_data[f]}
      old_values == [f \in changed |-> Get(old_data, f)]
      new_values == [f \in changed |-> new_data[f]]
      row == AuditLog("message", entity.id, u, UserOrg(u), "update",
                      IF changed # {} THEN old_values ELSE Null,
                      IF changed # {} THEN new_values ELSE Null)
  IN  IF changed = {} \/ ~validate_audit_params("message", "update")
      THEN [staged |-> <<>>, returned |-> Null]
      ELSE [staged |-> <<row>>, returned |-> row]

\* A caller takes a snapshot, changes the entity and calls track_update.
TrackUpdate(u) ==
  /\ reply.kind = "track_update_call"
  /\ LET result == track_update(reply.entity, reply.old_data, u)
     IN  reply' = [kind |-> "track_update", user |-> u, entity |-> reply.entity,
                   old_data |-> reply.old_data, staged |-> result.staged,
                   returned |-> result.returned]
  /\ UNCHANGED <<db, nextId, hs, audit>>
  /\ UNCHANGED <<regVars, channels>>

\* The pending objects of the Session a caller of create_audit_log holds.
Pending == IF reply.kind = "create_audit_log" THEN reply.session ELSE <<>>

\* One call of create_audit_log inside a caller's open transaction.
CreateAuditLog(entity_type, action) ==
  /\ reply.kind \in {"none", "create_audit_log"}
  /\ LET result == create_audit_log(Pending, entity_type, 1, "u1", action)
     IN  reply' = [kind |-> "create_audit_log", entity_type |-> entity_type,
                   action |-> action, raised |-> result.raised,
                   status |-> IF result.raised THEN 400 ELSE 0,
                   session |-> result.session]
  /\ UNCHANGED <<db, nextId, hs, audit>>
  /\ UNCHANGED <<regVars, channels>>

\* A transaction that persists the staged message although an exception was
\* raised after it was staged.
commit_message_anyway(old, staged, raised) ==
  IF raised THEN [old EXCEPT !.db = staged.db, !.nextId = staged.nextId] ELSE staged

\* session.commit() of everything staged, or session.rollback() in the
\* except clause when an exception was raised before the commit.
commit_or_rollback(old, staged, raised) == IF raised THEN old ELSE staged

\* The users the MCP tools act for, found by email.
McpUsers == {"u1", "u3"}

\* Where an exception is raised in a tool: nowhere, or on staging the audit row.
Faults == {"none", "audit"}

\* A root whose thread_id is left for a later transaction: the row is
\* committed as it was flushed.
committed_as_flushed(message) == message

\* message.thread_id = message.id, after session.flush() and before the one
\* session.commit(): the row as the commit makes it visible.
committed_root(message) == [message EXCEPT !.thread_id = message.id]

\* post_message_logic: one Session, one transaction.
post_message_logic(u, ch, body, fault) ==
  /\ IF \/ body = <<>> \/ Strip(body) = <<>>
        \/ Len(Strip(body)) > MaxBodyLength
        \/ ch \notin Channels \/ ChannelOrg(ch) # UserOrg(u)
     THEN /\ reply' = [kind |-> "post_message", user |-> u, ok |-> FALSE, id |-> NoId]
          /\ UNCHANGED <<db, nextId, audit>>
     ELSE LET id == nextId
              message == committed_root(NewMessage(id, ch, u, NoId, body))
              valid == validate_audit_params("message", "create")
              row == AuditLog("message", id, u, UserOrg(u), "create", Null,
                              entity_to_dict(message))
              old == [db |-> db, nextId |-> nextId, audit |-> audit]
              staged == [db |-> (id :> message) @@ db, nextId |-> nextId + 1,
                         audit |-> IF valid THEN Append(audit, row) ELSE audit]
              raised == ~valid \/ fault = "audit"
              new == commit_or_rollback(old, staged, raised)
          IN  /\ db' = new.db
              /\ nextId' = new.nextId
              /\ audit' = new.audit
              /\ reply' = [kind |-> "post_message", user |-> u, ok |-> ~raised,
                           id |-> IF raised THEN NoId ELSE id]
  /\ UNCHANGED hs
  /\ UNCHANGED <<regVars, channels>>

\* A caller stages AuditService.create_audit_log(...) for one of its
\* entities and commits (the way add_reaction_logic does for a reaction).
AuditWrite(entity_type, entity_id, u, action) ==
  /\ validate_audit_params(entity_type, action)
  /\ audit' = Append(audit, AuditLog(entity_type, entity_id, u, UserOrg(u), action,
                                     Null, Null))
  /\ UNCHANGED <<db, nextId, hs, reply>>
  /\ UNCHANGED <<regVars, channels>>

\* User.role: u2 is a member, the others are admins of their organizations.
RoleOf(u) == IF u = "u2" THEN "member" ELSE "admin"

\* A dependency that lets every authenticated user through.
require_active_user(u) == TRUE

\* require_admin_user: the dependency returns the user (no 403 is raised).
require_admin_user(u) == RoleOf(u) = "admin"

\* The list in reverse order.
Reverse(seq) == [i \in 1..Len(seq) |-> seq[Len(seq) + 1 - i]]

\* .offset(offset).limit(limit)
Page(seq, offset, limit) ==
  SubSeq(seq, offset + 1, IF offset + limit < Len(seq) THEN offset + limit ELSE Len(seq))

\* The optional filters of list_audit_logs: a filter that is not given (None)
\* adds no condition.
Filtered(row, f) ==
  /\ f.entity_type # Null => row.entity_type = f.entity_type
  /\ f.entity_id # NoId => row.entity_id = f.entity_id
  /\ f.action # Null => row.action = f.action
  /\ f.user_id # Null => row.user_id = f.user_id

\* A list_audit_logs whose count query misses the organization condition.
list_audit_logs_count_all(log, org_id, f, limit, offset) ==
  LET InOrgFiltered(row) == row.org_id = org_id /\ Filtered(row, f)
      OnlyFiltered(row) == Filtered(row, f)
  IN  [audit_logs |-> Page(Reverse(SelectSeq(log, InOrgFiltered)), offset, limit),
       total_count |-> Len(SelectSeq(log, OnlyFiltered))]

\* list_audit_logs: the query (newest first, paginated) and the count query,
\* on the table log (held in created_at order) for an admin of org_id.
list_audit_logs(log, org_id, f, limit, offset) ==
  LET InOrgFiltered(row) == row.org_id = org_id /\ Filtered(row, f)
  IN  [audit_logs |-> Page(Reverse(SelectSeq(log, InOrgFiltered)), offset, limit),
       total_count |-> Len(SelectSeq(log, InOrgFiltered))]

\* get_entity_audit_history: oldest first, paginated.
get_entity_audit_history(log, org_id, entity_type, entity_id, limit, offset) ==
  LET Selected(row) == /\ row.entity_type = entity_type
                       /\ row.entity_id = entity_id
                       /\ row.org_id = org_id
  IN  Page(SelectSeq(log, Selected), offset, limit)

\* GET /audit by user u: require_admin_user, then list_audit_logs.
ListAuditLogs(u, f, limit, offset) ==
  /\ IF ~require_admin_user(u)
     THEN reply' = [kind |-> "audit_list", user |-> u, status |-> 403,
                    audit_logs |-> <<>>, total_count |-> 0]
     ELSE LET r == list_audit_logs(audit, UserOrg(u), f, limit, offset)
          IN  reply' = [kind |-> "audit_list", user |-> u, status |-> 200,
                        audit_logs |-> r.audit_logs, total_count |-> r.total_count]
  /\ UNCHANGED <<db, nextId, hs, audit>>
  /\ UNCHANGED <<regVars, channels>>

\* GET /audit/entity/{entity_type}/{entity_id} by user u.
EntityAuditHistory(u, entity_type, entity_id, limit, offset) ==
  /\ IF ~require_admin_user(u)
     THEN reply' = [kind |-> "audit_history", user |-> u, status |-> 403,
                    audit_logs |-> <<>>, total_count |-> 0]
     ELSE reply' = [kind |-> "audit_history", user |-> u, status |-> 200,
                    audit_logs |-> get_entity_audit_history(audit, UserOrg(u),
                                     entity_type, entity_id, limit, offset),
                    total_count |-> 0]
  /\ UNCHANGED <<db, nextId, hs, audit>>
  /\ UNCHANGED <<regVars, channels>>

\* The set of elements of a list.
Range(seq) == {seq[i] : i \in DOMAIN seq}

\* --------------------------------------------------------------- channels

\* Field(..., min_length=1, max_length=100) of ChannelBase.name
MinNameLength == 1
MaxNameLength == 100

\* A name check that looks at the channels of every organization.
name_taken_anywhere(table, org_id, name) == \E c \in table : c.name = name

\* UniqueConstraint("org_id", "name", name="uq_channel_name_per_org"): the
\* INSERT of (org_id, name) fails with an IntegrityError.
uq_channel_name_per_org(table, org_id, name) ==
  \E c \in table : c.org_id = org_id /\ c.name = name

\* create_channel by user u with the name raw: schema validation, strip,
\* the 422 for a blank name, then INSERT and commit, or the 409 after the
\* rollback of an INSERT the unique constraint refused.
create_channel(u, raw) ==
  /\ LET name == Strip(raw)
         r == [kind |-> "create_channel", user |-> u, raw |-> raw, status |-> 201,
               id |-> NoId]
         id == Cardinality(channels) + 1
     IN  IF Len(raw) < MinNameLength \/ Len(raw) > MaxNameLength \/ name = <<>>
         THEN /\ reply' = [r EXCEPT !.status = 422]
              /\ channels' = channels
         ELSE IF uq_channel_name_per_org(channels, UserOrg(u), name)
         THEN /\ reply' = [r EXCEPT !.status = 409]
              /\ channels' = channels
         ELSE /\ reply' = [r EXCEPT !.id = id]
              /\ channels' = channels \cup
                   {[id |-> id, org_id |-> UserOrg(u), name |-> name]}
  /\ UNCHANGED <<db, nextId, hs, audit>>
  /\ UNCHANGED regVars

\* ----------------------------------------------------------------- search

\* The characters [\w\-\+\*] keeps; any other is replaced by a space.
WordChars == {"x", "y", "-", "+", "*"}

\* re.sub(r"[^\w\s\-\+\*]", " ", q).strip()
Sanitize(q) == Strip([i \in DOMAIN q |-> IF q[i] \in WordChars THEN q[i] ELSE " "])

\* message_fts MATCH :query, with the index in step with table message (the
\* triggers of the FTS migration): every term of the query is in the body.
Matches(query, body) ==
  \A i \in DOMAIN query : query[i] # " " => query[i] \in Range(body)

\* ORDER BY rank: the ids of a set as a list (here in ascending order).
RECURSIVE Ranked(_)
Ranked(ids) ==
  IF ids = {} THEN <<>>
  ELSE LET first == CHOOSE x \in ids : \A y \in ids : x <= y
       IN  <<first>> \o Ranked(ids \ {first})

\* SearchRepository.search_messages: the matching messages (of the channel,
\* if one is given) in rank order, paginated.
repo_search_messages(table, query, channel_id, limit, offset) ==
  LET Hit(row) == /\ Matches(query, row.body)
                  /\ channel_id # Null => row.channel_id = channel_id
  IN  Page(Ranked({id \in DOMAIN table : Hit(table[id])}), offset, limit)

\* The organization filter on a found message: its channel is one of the
\* user's organization.
in_users_org(table, id, u) == ChannelOrg(table[id].channel_id) = UserOrg(u)

\* GET /search by user u.
search_messages(u, q, scope, limit, offset) ==
  /\ LET r == [kind |-> "search", user |-> u, q |-> q, scope |-> scope,
               status |-> 200, results |-> <<>>]
         sanitized_query == Sanitize(q)
         messages == repo_search_messages(db, sanitized_query, scope, limit, offset)
         Allowed(id) == in_users_org(db, id, u)
     IN  IF scope # Null /\ (scope \notin Channels \/ ChannelOrg(scope) # UserOrg(u))
         THEN reply' = [r EXCEPT !.status = 404]
         ELSE IF sanitized_query = <<>>
         THEN reply' = [r EXCEPT !.status = 400]
         ELSE reply' = [r EXCEPT !.results = SelectSeq(messages, Allowed)]
  /\ UNCHANGED <<db, nextId, hs, audit>>
  /\ UNCHANGED <<regVars, channels>>

\* limit=10 of search_logic's repository call.
McpSearchLimit == 10

\* search_logic for user u: the search, the organization filter, then the
\* audit row of the search and the commit; the HTTPException(400) of
\* _validate_audit_params rolls back and is raised to the caller.
search_logic(u, q) ==
  /\ LET r == [kind |-> "mcp_search", user |-> u, q |-> q, scope |-> Null,
               status |-> 200, results |-> <<>>]
         results == repo_search_messages(db, q, Null, McpSearchLimit, 0)
         Allowed(id) == in_users_org(db, id, u)
         row == AuditLog("search", u, u, UserOrg(u), "search", Null,
                         [query |-> q, results_count |-> Len(SelectSeq(results, Allowed)),
                          via |-> "mcp"])
     IN  IF validate_audit_params("search", "search")
         THEN /\ audit' = Append(audit, row)
              /\ reply' = [r EXCEPT !.results = SelectSeq(results, Allowed)]
         ELSE /\ audit' = audit
              /\ reply' = [r EXCEPT !.status = 400]
  /\ UNCHANGED <<db, nextId, hs>>
  /\ UNCHANGED <<regVars, channels>>

\* ----------------------------------------------------------- thread reads

\* The lists that hold each element of S once.
Perms(S) ==
  {f \in [1..Cardinality(S) -> S] : \A i, j \in 1..Cardinality(S) : i # j => f[i] # f[j]}

\* ORDER BY created_at: the rows in an order of rising created_at. SQL leaves
\* the order of rows with equal keys open, so this is every such order.
order_by_created_at(table, ids) ==
  {seq \in Perms(ids) :
     \A i, j \in DOMAIN seq : i < j => table[seq[i]].created_at <= table[seq[j]].created_at}

\* GET /messages/threads/{thread_id}: the channel check, the thread check and
\* the page of the thread's messages in the order the database returns them.
get_thread_messages(table, u, thread_id, channel_id, limit, offset, order) ==
  LET r == [kind |-> "thread", user |-> u, thread_id |-> thread_id,
            channel_id |-> channel_id, limit |-> limit, offset |-> offset,
            status |-> 200, msg |-> Null, results |-> <<>>]
  IN  IF channel_id \notin Channels \/ ChannelOrg(channel_id) # UserOrg(u)
      THEN [r EXCEPT !.status = 404, !.msg = ChannelNotFound]
      ELSE IF ~(thread_id \in DOMAIN table /\ table[thread_id].channel_id = channel_id)
      THEN [r EXCEPT !.status = 404, !.msg = ThreadNotFound]
      ELSE [r EXCEPT !.results = Page([i \in DOMAIN order |-> table[order[i]]], offset, limit)]

\* The handler called with one of the orders the database may return.
GetThread(u, thread_id, channel_id, limit, offset) ==
  /\ LET ids == {m \in DOMAIN db : /\ db[m].thread_id = thread_id
                                    /\ db[m].channel_id = channel_id}
     IN  \E order \in order_by_created_at(db, ids) :
           reply' = get_thread_messages(db, u, thread_id, channel_id, limit, offset, order)
  /\ UNCHANGED <<db, nextId, hs, audit>>
  /\ UNCHANGED <<regVars, channels>>

\* ------------------------------------------------------------ registry

\* dict.pop(key, None) on a dict held as a function.
Without(f, key) == [k \in DOMAIN f \ {key} |-> f[k]]

StreamIds == 1..MaxStreams

BroadcastIds == 1..MaxBroadcasts

\* The threshold of `if queue.qsize() > 100` (the same literal as maxsize).
QueueSkipAbove == QueueMaxSize

\* user.display_name
DisplayName(u) == <<"name of", u>>

\* _format_sse_message(event_type, data): "event: <type>\ndata: <json>\n\n"
format_sse_message(event_type, data) == [event |-> event_type, data |-> data]

\* The presence_data of event_stream_generator.
PresenceData(u) ==
  [user_id |-> u, display_name |-> DisplayName(u), status |-> "online",
   timestamp |-> Now]

\* A heartbeat sent as an event of its own type.
HeartbeatEvent == [event |-> "heartbeat", data |-> [timestamp |-> Now]]

\* ": heartbeat <timestamp>\n\n", an SSE comment
Heartbeat == [comment |-> "heartbeat", timestamp |-> Now]

\* The ConnectionManager's three dicts, with the Queue objects they refer to.
\* connections is held as the list of its keys in insertion order (the order
\* list(self.connections.items()) yields); the queue of key c is queues[c],
\* which outlives its removal from the dict while a broadcaster refers to it.
Registry ==
  [connections |-> connections, connection_orgs |-> connection_orgs,
   user_connections |-> user_connections, queues |-> queues]

SetRegistry(R) ==
  /\ connections' = R.connections
  /\ connection_orgs' = R.connection_orgs
  /\ user_connections' = R.user_connections
  /\ queues' = R.queues

\* A connect that does not record the organization of the connection.
connect_without_org(R, connection_id, user_id, org_id) ==
  [connections |->
     IF connection_id \in Range(R.connections) THEN R.connections
     ELSE Append(R.connections, connection_id),
   queues |-> (connection_id :> <<>>) @@ R.queues,
   connection_orgs |-> R.connection_orgs,
   user_connections |->
     LET ids == IF user_id \in DOMAIN R.user_connections
                THEN R.user_connections[user_id] ELSE <<>>
     IN  (user_id :> Append(ids, connection_id)) @@ R.user_connections]

\* A connect that does not index the connection under its user.
connect_unlisted(R, connection_id, user_id, org_id) ==
  [connections |->
     IF connection_id \in Range(R.connections) THEN R.connections
     ELSE Append(R.connections, connection_id),
   queues |-> (connection_id :> <<>>) @@ R.queues,
   connection_orgs |-> (connection_id :> org_id) @@ R.connection_orgs,
   user_connections |-> R.user_connections]

\* ConnectionManager.connect
connect(R, connection_id, user_id, org_id) ==
  [connections |->
     IF connection_id \in Range(R.connections) THEN R.connections
     ELSE Append(R.connections, connection_id),
   queues |-> (connection_id :> <<>>) @@ R.queues,
   connection_orgs |-> (connection_id :> org_id) @@ R.connection_orgs,
   user_connections |->
     LET ids == IF user_id \in DOMAIN R.user_connections
                THEN R.user_connections[user_id] ELSE <<>>
     IN  (user_id :> Append(ids, connection_id)) @@ R.user_connections]

\* A disconnect that drops the user's whole list.
disconnect_drops_user(R, connection_id, user_id) ==
  LET Other(cid) == cid # connection_id
      registered == connection_id \in Range(R.connections)
  IN  [connections |->
         IF registered THEN SelectSeq(R.connections, Other) ELSE R.connections,
       queues |->
         IF registered THEN [R.queues EXCEPT ![connection_id] = <<>>] ELSE R.queues,
       connection_orgs |->
         IF connection_id \in DOMAIN R.connection_orgs
         THEN Without(R.connection_orgs, connection_id) ELSE R.connection_orgs,
       user_connections |->
         IF user_id \notin DOMAIN R.user_connections THEN R.user_connections
         ELSE Without(R.user_connections, user_id)]

\* A disconnect that leaves the organization tag behind.
disconnect_keeps_org(R, connection_id, user_id) ==
  LET Other(cid) == cid # connection_id
      registered == connection_id \in Range(R.connections)
      ids == SelectSeq(R.user_connections[user_id], Other)
  IN  [connections |->
         IF registered THEN SelectSeq(R.connections, Other) ELSE R.connections,
       queues |->
         IF registered THEN [R.queues EXCEPT ![connection_id] = <<>>] ELSE R.queues,
       connection_orgs |-> R.connection_orgs,
       user_connections |->
         IF user_id \notin DOMAIN R.user_connections THEN R.user_connections
         ELSE IF ids = <<>> THEN Without(R.user_connections, user_id)
         ELSE [R.user_connections EXCEPT ![user_id] = ids]]

\* ConnectionManager.disconnect
disconnect(R, connection_id, user_id) ==
  LET Other(cid) == cid # connection_id
      registered == connection_id \in Range(R.connections)
      ids == SelectSeq(R.user_connections[user_id], Other)
  IN  [connections |->
         IF registered THEN SelectSeq(R.connections, Other) ELSE R.connections,
       queues |->
         IF registered THEN [R.queues EXCEPT ![connection_id] = <<>>] ELSE R.queues,
       connection_orgs |->
         IF connection_id \in DOMAIN R.connection_orgs
         THEN Without(R.connection_orgs, connection_id) ELSE R.connection_orgs,
       user_connections |->
         IF user_id \notin DOMAIN R.user_connections THEN R.user_connections
         ELSE IF ids = <<>> THEN Without(R.user_connections, user_id)
         ELSE [R.user_connections EXCEPT ![user_id] = ids]]

\* ----------------------------------------------------------- event streams

\* The users who open event streams: one of each organization.
Subscribers == {"u1", "u3"}

\* first: the first item the generator has yielded, as a list of at most one
\* item; last: the call number of the latest outbox item it has yielded while
\* it runs (0: none, or an item of send_heartbeat, which names no call); out:
\* the item it has yielded last while it runs, as a list of at most one item.
NewStream == [pc |-> "new", user |-> Null, first |-> <<>>, last |-> 0, out |-> <<>>]

\* A queue that hands out its newest item.
get_newest(q) == [item |-> q[Len(q)], rest |-> SubSeq(q, 1, Len(q) - 1)]

\* asyncio.Queue.get() on a queue that holds items: the oldest item.
get(q) == [item |-> Head(q), rest |-> Tail(q)]

\* The number of the broadcast call an outbox item comes from.
CallOf(item) == IF "data" \in DOMAIN item THEN item.data.call ELSE 0

\* yield: the item goes to the client.
Emit(st, item) ==
  [st EXCEPT !.first = IF @ = <<>> THEN <<item>> ELSE @, !.out = <<item>>]

\* A generator that starts its main loop without announcing presence.
FirstYieldNothing(st, u) == st

\* The first yield of event_stream_generator.
FirstYield(st, u) == Emit(st, format_sse_message("presenceUpdate", PresenceData(u)))

\* An exit of the generator that bypasses the cleanup.
FinallyNothing(R, connection_id, user_id) == R

\* finally: await manager.disconnect(connection_id, str(user.id))
Finally(R, connection_id, user_id) == disconnect(R, connection_id, user_id)

\* The streams take their connection ids in order (uuid4: never reused).
Fresh(s) == streams[s].pc = "new" /\ \A t \in 1..(s - 1) : streams[t].pc # "new"

\* event_stream_generator up to its first yield: connect, then the presence
\* event (no suspension point lies between the two).
StreamOpen(s, u) ==
  /\ Fresh(s)
  /\ SetRegistry(connect(Registry, s, u, UserOrg(u)))
  /\ streams' = [streams EXCEPT ![s] =
                   FirstYield([NewStream EXCEPT !.pc = "streaming", !.user = u], u)]
  /\ UNCHANGED bc
  /\ UNCHANGED <<msgVars, channels>>

\* An exception while the presence event is built: except Exception, finally.
StreamOpenFails(s, u) ==
  /\ Fresh(s)
  /\ SetRegistry(Finally(connect(Registry, s, u, UserOrg(u)), s, u))
  /\ streams' = [streams EXCEPT ![s] =
                   [NewStream EXCEPT !.pc = "closed", !.user = u]]
  /\ UNCHANGED bc
  /\ UNCHANGED <<msgVars, channels>>

\* The main loop with a message in the outbox: queue.get() returns it and it
\* is yielded as it is.
StreamNext(s) ==
  /\ streams[s].pc = "streaming"
  /\ queues[s] # <<>>
  /\ LET message == get(queues[s])
     IN  /\ queues' = [queues EXCEPT ![s] = message.rest]
         /\ streams' = [streams EXCEPT ![s] =
                          [Emit(@, message.item) EXCEPT !.last = CallOf(message.item)]]
  /\ UNCHANGED <<connections, connection_orgs, user_connections, bc>>
  /\ UNCHANGED <<msgVars, channels>>

\* The main loop with nothing in the outbox for 15 seconds: TimeoutError, and
\* a heartbeat comment is yielded.
StreamHeartbeat(s) ==
  /\ streams[s].pc = "streaming"
  /\ queues[s] = <<>>
  /\ streams' = [streams EXCEPT ![s] = Emit(@, Heartbeat)]
  /\ UNCHANGED <<connections, connection_orgs, user_connections, queues, bc>>
  /\ UNCHANGED <<msgVars, channels>>

\* How a stream that has yielded ends: CancelledError at the await,
\* an Exception in the loop, or GeneratorExit at a yield (aclose).
ExitPaths == {"cancelled", "error", "closed"}

\* The stream ends: the except clauses only log; finally disconnects.
StreamExit(s, how) ==
  /\ streams[s].pc = "streaming"
  /\ SetRegistry(Finally(Registry, s, streams[s].user))
  /\ how \in ExitPaths
  /\ streams' = [streams EXCEPT ![s].pc = "closed", ![s].last = 0, ![s].out = <<>>]
  /\ UNCHANGED bc
  /\ UNCHANGED <<msgVars, channels>>

\* A caller invokes disconnect(c, u) once more for a connection that has
\* been disconnected.
DisconnectAgain(s) ==
  /\ streams[s].pc = "closed"
  /\ SetRegistry(disconnect(Registry, s, streams[s].user))
  /\ UNCHANGED streams
  /\ UNCHANGED bc
  /\ UNCHANGED <<msgVars, channels>>

\* -------------------------------------------------------------- broadcasts

\* A call of a registry operation. For send_heartbeat, which iterates over
\* self.connections.items() itself, snapshot is the dict's keys when the
\* iterator was made (the iterator keeps their number), i the number of keys
\* it has yielded and pos the last key it has yielded.
NoCall == [pc |-> "idle", kind |-> "none", target |-> Null, event |-> Null,
           snapshot |-> <<>>, i |-> 0, pos |-> 0]

\* The scopes of broadcast_to_org, broadcast_to_user, broadcast_to_all; the
\* calls to a user go to u1 (those to u3 mirror them, the organizations
\* exchanged).
Scopes ==
  {<<"org", o>> : o \in Orgs} \cup {<<"user", "u1">>}
    \cup {<<"all", Null>>}

\* The event_type of a call (broadcast_new_message's).
EventTypes == {"newMessage"}

\* A broadcast_to_org that delivers whatever the organization.
InOrgAny(R, connection_id, org_id) == TRUE

\* self.connection_orgs.get(connection_id) == org_id
InOrg(R, connection_id, org_id) ==
  connection_id \in DOMAIN R.connection_orgs /\ R.connection_orgs[connection_id] = org_id

\* The condition under which the loop body goes on to the outbox of cid.
Addressed(call, R, cid) ==
  CASE call.kind = "org" -> InOrg(R, cid, call.target)
    [] call.kind = "user" -> cid \in Range(R.connections)
    [] OTHER -> TRUE

\* A queue without a capacity: put() never suspends.
FullNever(q) == FALSE

\* asyncio.Queue.full(): put() suspends while it holds.
Full(q) == Len(q) >= QueueMaxSize

\* The for loop of a broadcast from position i of its snapshot, on the queues
\* Q, up to its end or to a put that suspends. The loop reads the registry R
\* as it is while it runs.
RECURSIVE BroadcastLoop(_, _, _, _)
BroadcastLoop(call, R, Q, i) ==
  IF i > Len(call.snapshot)
  THEN [queues |-> Q, call |-> [NoCall EXCEPT !.pc = "done"]]
  ELSE LET cid == call.snapshot[i]
       IN  IF ~Addressed(call, R, cid) THEN BroadcastLoop(call, R, Q, i + 1)
           ELSE IF Len(Q[cid]) > QueueSkipAbove THEN BroadcastLoop(call, R, Q, i + 1)
           ELSE IF Full(Q[cid])
           THEN [queues |-> Q, call |-> [call EXCEPT !.pc = "waiting", !.i = i]]
           ELSE BroadcastLoop(call, R, [Q EXCEPT ![cid] = Append(@, call.event)], i + 1)

\* A broadcast_to_user that iterates over all connections.
SnapshotOfAll(R, kind, target) == R.connections

\* A snapshot that holds the oldest connection only.
SnapshotOldest(R, kind, target) ==
  LET Oldest(seq) == IF seq = <<>> THEN <<>> ELSE <<Head(seq)>>
  IN  IF kind = "user"
      THEN IF target \in DOMAIN R.user_connections
           THEN Oldest(R.user_connections[target]) ELSE <<>>
      ELSE Oldest(R.connections)

\* The snapshot a broadcast iterates over, or <<>> when it returns at once.
Snapshot(R, kind, target) ==
  IF kind = "user"
  THEN IF target \in DOMAIN R.user_connections THEN R.user_connections[target] ELSE <<>>
  ELSE R.connections

\* The calls are numbered in the order they are made.
NextCall(b) == bc[b].pc = "idle" /\ \A a \in 1..(b - 1) : bc[a].pc # "idle"

\* broadcast_to_org / broadcast_to_user / broadcast_to_all, from the call to
\* its first suspension or its return. The payload names the call: its
\* number and the scope it was made with.
Broadcast(b, scope, event_type) ==
  /\ NextCall(b)
  /\ LET call == [NoCall EXCEPT !.kind = scope[1], !.target = scope[2],
                                !.event = format_sse_message(event_type,
                                           [call |-> b, kind |-> scope[1], target |-> scope[2]]),
                                !.snapshot = Snapshot(Registry, scope[1], scope[2])]
         run == BroadcastLoop(call, Registry, queues, 1)
     IN  /\ queues' = run.queues
         /\ bc' = [bc EXCEPT ![b] = run.call]
  /\ UNCHANGED <<connections, connection_orgs, user_connections, streams>>
  /\ UNCHANGED <<msgVars, channels>>

\* A suspended put is resumed once its queue has room; the loop goes on.
BroadcastResume(b) ==
  /\ bc[b].pc = "waiting"
  /\ bc[b].kind # "heartbeat"
  /\ LET call == bc[b]
         cid == call.snapshot[call.i]
     IN  /\ ~Full(queues[cid])
         /\ LET run == BroadcastLoop(call, Registry,
                         [queues EXCEPT ![cid] = Append(@, call.event)], call.i + 1)
            IN  /\ queues' = run.queues
                /\ bc' = [bc EXCEPT ![b] = run.call]
  /\ UNCHANGED <<connections, connection_orgs, user_connections, streams>>
  /\ UNCHANGED <<msgVars, channels>>

\* The least of a set of connection ids (ids are handed out in rising
\* order, so the dict's insertion order is the order of the ids).
Least(S) == CHOOSE c \in S : \A d \in S : c <= d

\* The for loop of send_heartbeat from the iterator's position, on the queues
\* Q and the dict as it is now, up to its end, to a put that suspends or to
\* the RuntimeError the dict iterator raises when the dict's size differs
\* from the size it started with or when it meets more keys than that.
RECURSIVE HeartbeatLoop(_, _, _)
HeartbeatLoop(call, R, Q) ==
  IF Len(R.connections) # Len(call.snapshot)
  THEN [queues |-> Q, call |-> [call EXCEPT !.pc = "failed"]]
  ELSE LET later == {c \in Range(R.connections) : c > call.pos}
       IN  IF later = {}
           THEN [queues |-> Q, call |-> [call EXCEPT !.pc = "done"]]
           ELSE IF call.i >= Len(call.snapshot)
           THEN [queues |-> Q, call |-> [call EXCEPT !.pc = "failed"]]
           ELSE LET cid == Least(later)
                    at == [call EXCEPT !.pos = cid, !.i = @ + 1]
                IN  IF Full(Q[cid])
                    THEN [queues |-> Q, call |-> [at EXCEPT !.pc = "waiting"]]
                    ELSE HeartbeatLoop(at, R, [Q EXCEPT ![cid] = Append(@, call.event)])

\* send_heartbeat, from the call to its first suspension or its return.
SendHeartbeat(b) ==
  /\ NextCall(b)
  /\ LET call == [NoCall EXCEPT !.kind = "heartbeat", !.event = Heartbeat,
                                !.snapshot = connections]
         run == IF connections = <<>>
                THEN [queues |-> queues, call |-> [call EXCEPT !.pc = "done"]]
                ELSE HeartbeatLoop(call, Registry, queues)
     IN  /\ queues' = run.queues
         /\ bc' = [bc EXCEPT ![b] = run.call]
  /\ UNCHANGED <<connections, connection_orgs, user_connections, streams>>
  /\ UNCHANGED <<msgVars, channels>>

\* The suspended put of send_heartbeat is resumed once its queue has room;
\* the for statement then asks the dict iterator for the next item.
HeartbeatResume(b) ==
  /\ bc[b].pc = "waiting"
  /\ bc[b].kind = "heartbeat"
  /\ LET call == bc[b]
         cid == call.pos
     IN  /\ ~Full(queues[cid])
         /\ LET run == HeartbeatLoop([call EXCEPT !.pc = "idle"], Registry,
                         [queues EXCEPT ![cid] = Append(@, call.event)])
            IN  /\ queues' = run.queues
                /\ bc' = [bc EXCEPT ![b] = run.call]
  /\ UNCHANGED <<connections, connection_orgs, user_connections, streams>>
  /\ UNCHANGED <<msgVars, channels>>

RegInit ==
  /\ connections = <<>>
  /\ connection_orgs = <<>>
  /\ user_connections = <<>>
  /\ queues = <<>>
  /\ streams = [s \in StreamIds |-> NewStream]
  /\ bc = [b \in BroadcastIds |-> NoCall]

\* ------------------------------------------------------- specifications

MsgInit ==
  /\ db = <<>>
  /\ nextId = 1
  /\ hs = [h \in Handlers |-> IdleHandler]
  /\ audit = <<>>
  /\ reply = NoReply

Init == MsgInit /\ RegInit /\ channels = {}

\* A POST /messages request arrives while fewer than MaxMessages were made.
PostMessage(h, u, ch, body, tid) ==
  /\ nextId <= MaxMessages
  /\ create_begin(h, u, ch, body, tid)

Next ==
  \/ \E h \in Handlers, u \in Posters, ch \in ChannelIds, body \in RawBodies,
        tid \in {NoId} \cup MsgIds : PostMessage(h, u, ch, body, tid)
  \/ \E h \in Handlers : create_insert(h)
  \/ \E h \in Handlers : create_patch(h)
  \/ \E h \in Handlers, u \in Users, m \in MsgIds, body \in RawBodies,
        ver \in 1..MaxVersion : update_select(h, u, m, body, ver)
  \/ \E h \in Handlers : update_commit(h)

Spec == Init /\ [][Next]_vars

\* Entity types and actions handed to create_audit_log: valid ones, blank
\* ones, one of 50 and one of 51 characters, and unknown actions.
CallTypes == {"message", "", " ", "tttttttttttttttttttttttttttttttttttttttttttttttttt",
              "eeeeeeeeeeeeeeeeeeeeeeeeeeeeeeeeeeeeeeeeeeeeeeeeeee"}

CallActions == {"create", "update", "delete", "search", "read"}

AuditCall(entity_type, action) ==
  /\ Len(Pending) < MaxAudit
  /\ CreateAuditLog(entity_type, action)

NextValidate == \E entity_type \in CallTypes, action \in CallActions :
                  AuditCall(entity_type, action)

SpecValidate == Init /\ [][NextValidate]_vars

\* Channel names of requests: two names, one of them also with spaces around
\* it, the empty name and a blank one.
RawNames == {<<"a">>, <<" ", "a", " ">>, <<"b">>, <<>>, <<" ">>}

\* A POST /channels request while the table has room.
NewChannel(u, raw) ==
  /\ Cardinality(channels) < MaxChannels
  /\ create_channel(u, raw)

NextChannels == \E u \in Users, raw \in RawNames : NewChannel(u, raw)

SpecChannels == Init /\ [][NextChannels]_vars

\* One author posts roots and replies in one channel, one request after
\* the other, and edits them in requests that run beside the posts.
PostByAuthor(tid) ==
  /\ nextId <= MaxPosts
  /\ create_begin("h1", "u1", "chA", <<"x">>, tid)

EditByAuthor(m, ver) == update_select("h2", "u1", m, <<" ", "y", " ">>, ver)

NextEdits ==
  \/ \E tid \in {NoId} \cup PostIds : PostByAuthor(tid)
  \/ \E h \in Handlers : create_insert(h)
  \/ \E h \in Handlers : create_patch(h)
  \/ \E m \in PostIds, ver \in 1..MaxVersion : EditByAuthor(m, ver)
  \/ \E h \in Handlers : update_commit(h)

SpecEdits == Init /\ [][NextEdits]_vars

\* One author posts root messages, and any user, the author, another member
\* of the organization or a user of another organization, asks to edit them
\* with any expected version.
EditByUser(u, m, ver) == update_select("h2", u, m, <<" ", "y", " ">>, ver)

NextChecks ==
  \/ PostByAuthor(NoId)
  \/ \E h \in Handlers : create_insert(h)
  \/ \E h \in Handlers : create_patch(h)
  \/ \E u \in Users, m \in PostIds, ver \in 1..MaxVersion : EditByUser(u, m, ver)
  \/ \E h \in Handlers : update_commit(h)

SpecChecks == Init /\ [][NextChecks]_vars

\* One author posts roots, replies and replies to any message id, in either
\* channel, while fewer than MaxChain messages were made.
ChainIds == 1..MaxChain

PostInChain(h, ch, tid) ==
  /\ nextId <= MaxChain
  /\ create_begin(h, "u1", ch, <<"x">>, tid)

NextChain ==
  \/ \E h \in Handlers, ch \in Channels, tid \in {NoId} \cup ChainIds :
        PostInChain(h, ch, tid)
  \/ \E h \in Handlers : create_insert(h)
  \/ \E h \in Handlers : create_patch(h)

SpecChain == Init /\ [][NextChain]_vars

\* The states of a message a caller of track_update may hold before and
\* after its change.
SnapRows ==
  {[NewMessage(1, "chA", "u1", t, b) EXCEPT !.version = v, !.edited_at = e] :
     t \in {NoId, 1}, b \in RawBodies, v \in 1..MaxVersion, e \in {NoTime, Now}}

InitTrack ==
  /\ db = <<>>
  /\ nextId = 1
  /\ hs = [h \in Handlers |-> IdleHandler]
  /\ audit = <<>>
  /\ reply \in {[kind |-> "track_update_call", entity |-> e,
                  old_data |-> entity_to_dict(o)] : e \in SnapRows, o \in SnapRows}
  /\ RegInit
  /\ channels = {}

NextTrack == \E u \in Users : TrackUpdate(u)

SpecTrack == InitTrack /\ [][NextTrack]_vars

\* Requests whose body may be empty or blank, while the stores have room.
PostBody(h, u, ch, body) ==
  /\ nextId <= MaxMessages
  /\ create_begin(h, u, ch, body, NoId)

PostToolBody(u, ch, body) ==
  /\ nextId <= MaxMessages
  /\ Len(audit) < MaxAudit
  /\ post_message_logic(u, ch, body, "none")

NextBodies ==
  \/ \E h \in Handlers, u \in Posters, ch \in ChannelIds, body \in AnyBodies :
        PostBody(h, u, ch, body)
  \/ \E h \in Handlers : create_insert(h)
  \/ \E h \in Handlers : create_patch(h)
  \/ \E u \in McpUsers, ch \in ChannelIds, body \in AnyBodies :
        PostToolBody(u, ch, body)
  \/ \E h \in Handlers, u \in Users, m \in MsgIds, body \in AnyBodies,
        ver \in 1..MaxVersion : update_select(h, u, m, body, ver)
  \/ \E h \in Handlers : update_commit(h)

SpecBodies == Init /\ [][NextBodies]_vars

\* POST /messages requests that start threads and answer them, in any
\* channel, while fewer than MaxPosts messages were made.
PostInThread(h, u, ch, body, tid) ==
  /\ nextId <= MaxPosts
  /\ create_begin(h, u, ch, body, tid)

NextThreads ==
  \/ \E h \in Handlers, u \in Posters, ch \in ThreadChannelIds,
        body \in RawBodies, tid \in {NoId} \cup PostIds :
          PostInThread(h, u, ch, body, tid)
  \/ \E h \in Handlers : create_insert(h)
  \/ \E h \in Handlers : create_patch(h)

SpecThreads == Init /\ [][NextThreads]_vars

\* The registry with its streams and broadcasts. The idle heartbeat of a
\* stream, which touches nothing but what the stream has yielded last, is a
\* step of SpecStream.
NextEvents ==
  \/ \E s \in StreamIds, u \in Subscribers : StreamOpen(s, u)
  \/ \E s \in StreamIds, u \in Subscribers : StreamOpenFails(s, u)
  \/ \E s \in StreamIds : StreamNext(s)
  \/ \E s \in StreamIds, how \in ExitPaths : StreamExit(s, how)
  \/ \E s \in StreamIds : DisconnectAgain(s)
  \/ \E b \in BroadcastIds, scope \in Scopes, event_type \in EventTypes :
        Broadcast(b, scope, event_type)
  \/ \E b \in BroadcastIds : BroadcastResume(b)

SpecEvents == Init /\ [][NextEvents]_vars

\* The main loop of the streams of one user: items of broadcasts to all are
\* taken and yielded, heartbeats are yielded when the outbox stays empty.
NextStream ==
  \/ \E s \in StreamIds : StreamOpen(s, "u1")
  \/ \E s \in StreamIds : StreamNext(s)
  \/ \E s \in StreamIds : StreamHeartbeat(s)
  \/ \E s \in StreamIds, how \in ExitPaths : StreamExit(s, how)
  \/ \E b \in BroadcastIds, event_type \in EventTypes :
        Broadcast(b, <<"all", Null>>, event_type)
  \/ \E b \in BroadcastIds : BroadcastResume(b)

SpecStream == Init /\ [][NextStream]_vars

\* Streams open, take their items and close while heartbeats and broadcasts
\* to all are sent.
NextHeartbeat ==
  \/ \E s \in StreamIds, u \in Subscribers : StreamOpen(s, u)
  \/ \E s \in StreamIds : StreamNext(s)
  \/ \E s \in StreamIds, how \in ExitPaths : StreamExit(s, how)
  \/ \E b \in BroadcastIds, event_type \in EventTypes :
        Broadcast(b, <<"all", Null>>, event_type)
  \/ \E b \in BroadcastIds : BroadcastResume(b)
  \/ \E b \in BroadcastIds : SendHeartbeat(b)
  \/ \E b \in BroadcastIds : HeartbeatResume(b)

SpecHeartbeat == Init /\ [][NextHeartbeat]_vars

\* The tables a thread is read from: rows numbered in the order they were
\* inserted, their created_at rising with it (two rows may carry the same
\* instant), each a root (thread_id its own id, or not yet set) or an answer
\* to an earlier row of its channel.
ThreadTables ==
  {t \in [1..MaxThreadRows ->
            {[NewMessage(0, ch, "u1", tid, <<"x">>) EXCEPT !.created_at = at] :
               ch \in Channels, tid \in 0..MaxThreadRows, at \in {Now, Now + 1}}] :
     \A m \in 1..MaxThreadRows :
       /\ t[m].thread_id \in {NoId, m}
            \/ (t[m].thread_id < m /\ t[t[m].thread_id].channel_id = t[m].channel_id)
       /\ m > 1 => t[m - 1].created_at <= t[m].created_at}

InitThreadRead ==
  /\ \E t \in ThreadTables : db = [m \in 1..MaxThreadRows |-> [t[m] EXCEPT !.id = m]]
  /\ nextId = MaxThreadRows + 1
  /\ hs = [h \in Handlers |-> IdleHandler]
  /\ audit = <<>>
  /\ reply = NoReply
  /\ RegInit
  /\ channels = {}

\* The limits and offsets of thread reads (the default limit, 50, takes all).
ThreadLimits == {1, MaxThreadRows}

ThreadOffsets == {0, 1}

\* One read of the table (a read leaves the table as it is, so a second read
\* meets what the first one met).
ReadThread(u, thread_id, channel_id, limit, offset) ==
  /\ reply = NoReply
  /\ GetThread(u, thread_id, channel_id, limit, offset)

NextThreadRead ==
  \E u \in Posters, thread_id \in 1..(MaxThreadRows + 1), channel_id \in ThreadChannelIds,
     limit \in ThreadLimits, offset \in ThreadOffsets :
    ReadThread(u, thread_id, channel_id, limit, offset)

SpecThreadRead == InitThreadRead /\ [][NextThreadRead]_vars

\* The streams of both organizations with their consumers, under broadcasts
\* to all.
NextConnect ==
  \/ \E s \in StreamIds, u \in Subscribers : StreamOpen(s, u)
  \/ \E s \in StreamIds : StreamNext(s)
  \/ \E s \in StreamIds, how \in ExitPaths : StreamExit(s, how)
  \/ \E b \in BroadcastIds, event_type \in EventTypes :
        Broadcast(b, <<"all", Null>>, event_type)
  \/ \E b \in BroadcastIds : BroadcastResume(b)

SpecConnect == Init /\ [][NextConnect]_vars

\* A caller other than a stream invokes connect(c, u, org of u), whatever is
\* registered under c. The connect makes a new Queue; as queues go by their
\* connection id here, the call is made while no suspended call holds the
\* former queue of c.
ConnectCall(c, u) ==
  /\ \A b \in BroadcastIds : bc[b].pc = "waiting" => c \notin Range(bc[b].snapshot)
  /\ u \in DOMAIN user_connections => Len(user_connections[u]) < MaxListed
  /\ SetRegistry(connect(Registry, c, u, UserOrg(u)))
  /\ UNCHANGED <<streams, bc>>
  /\ UNCHANGED <<msgVars, channels>>

\* A caller other than a stream invokes disconnect(c, u).
DisconnectCall(c, u) ==
  /\ SetRegistry(disconnect(Registry, c, u))
  /\ UNCHANGED <<streams, bc>>
  /\ UNCHANGED <<msgVars, channels>>

\* The ConnectionManager called directly: any connects and disconnects, and
\* the three broadcasts.
NextCalls ==
  \/ \E c \in StreamIds, u \in Subscribers : ConnectCall(c, u)
  \/ \E c \in StreamIds, u \in Subscribers : DisconnectCall(c, u)
  \/ \E b \in BroadcastIds, scope \in Scopes, event_type \in EventTypes :
        Broadcast(b, scope, event_type)
  \/ \E b \in BroadcastIds : BroadcastResume(b)

SpecCalls == Init /\ [][NextCalls]_vars

\* The registry under connects, disconnects and the three broadcasts, while
\* no client takes an item (an outbox gets room again when its connection is
\* disconnected).
NextRegistry ==
  \/ \E s \in StreamIds, u \in Subscribers : StreamOpen(s, u)
  \/ \E s \in StreamIds, how \in ExitPaths : StreamExit(s, how)
  \/ \E b \in BroadcastIds, scope \in Scopes, event_type \in EventTypes :
        Broadcast(b, scope, event_type)
  \/ \E b \in BroadcastIds : BroadcastResume(b)

SpecRegistry == Init /\ [][NextRegistry]_vars

\* The REST handlers of the message store while event streams are opened.
NextPublish ==
  \/ Next
  \/ \E s \in StreamIds, u \in Subscribers : StreamOpen(s, u)

SpecPublish == Init /\ [][NextPublish]_vars

\* The entity types and actions of the rows callers write, and the values of
\* the query parameters.
AuditedTypes == {"reaction"}

AuditedIds == {1}

AuditedActions == {"create", "update"}

AuditFilters ==
  [entity_type : {Null, "reaction"}, entity_id : {NoId} \cup AuditedIds,
   action : {Null, "create"}, user_id : {Null, "u1"}]

Limits == {1, 2}

Offsets == {0, 1}

\* A tool call while the stores have room.
PostTool(u, ch, body, fault) ==
  /\ nextId <= MaxMessages
  /\ Len(audit) < MaxAudit
  /\ post_message_logic(u, ch, body, fault)

\* A caller's audit row while the log has room.
AuditTool(entity_type, entity_id, u, action) ==
  /\ Len(audit) < MaxAudit
  /\ AuditWrite(entity_type, entity_id, u, action)

\* The MCP post tool, other writers of the audit log, and the audit queries.
NextAudit ==
  \/ \E u \in McpUsers, ch \in ChannelIds, body \in RawBodies, fault \in Faults :
        PostTool(u, ch, body, fault)
  \/ \E entity_type \in AuditedTypes, entity_id \in AuditedIds, u \in McpUsers,
        action \in AuditedActions : AuditTool(entity_type, entity_id, u, action)
  \/ \E u \in Users, f \in AuditFilters, limit \in Limits, offset \in Offsets :
        ListAuditLogs(u, f, limit, offset)
  \/ \E u \in Users, entity_type \in AuditedTypes \cup {"message"},
        entity_id \in AuditedIds, limit \in Limits, offset \in Offsets :
        EntityAuditHistory(u, entity_type, entity_id, limit, offset)

SpecAudit == Init /\ [][NextAudit]_vars

\* The search queries: the terms x and y, and a query with no valid term.
Queries == {<<"x">>, <<"y">>, <<"?">>}

SearchScopes == {Null} \cup ChannelIds

\* A search tool call while the audit log has room.
SearchTool(u, q) ==
  /\ Len(audit) < MaxAudit
  /\ search_logic(u, q)

\* Messages are posted through REST while users search.
NextSearch ==
  \/ \E h \in Handlers, u \in Posters, ch \in ChannelIds, body \in RawBodies,
        tid \in {NoId} \cup MsgIds : PostMessage(h, u, ch, body, tid)
  \/ \E h \in Handlers : create_insert(h)
  \/ \E h \in Handlers : create_patch(h)
  \/ \E u \in Users, q \in Queries, scope \in SearchScopes, limit \in Limits,
        offset \in Offsets : search_messages(u, q, scope, limit, offset)
  \/ \E u \in McpUsers, q \in Queries : SearchTool(u, q)

SpecSearch == Init /\ [][NextSearch]_vars

\* A broadcaster whose put can go on is eventually run; nothing makes a
\* stream's consumer take its next item.
SpecEventsFair == SpecEvents /\ \A b \in BroadcastIds : WF_vars(BroadcastResume(b))

\* ------------------------------------------------ claims: message store

EditDone(h) == hs[h].op = "edit" /\ hs[h].pc = "done"

\* The edit handled by h was the author's: it got past the 404 and 403 checks.
AuthorEditDone(h) == EditDone(h) /\ hs[h].status \in {200, 409}

\* C1: of two edit requests by the author for the same message that carry the
\* same expected version, exactly one succeeds (200) and the other is refused
\* with a version conflict (409), however their steps interleave.
C1_OneOfTwoRacingEditsSucceeds ==
  \A h1, h2 \in Handlers :
    ( /\ h1 # h2
      /\ AuthorEditDone(h1) /\ AuthorEditDone(h2)
      /\ hs[h1].message_id = hs[h2].message_id
      /\ hs[h1].version = hs[h2].version
      /\ hs[h1].status = 200 )
    => hs[h2].status = 409

\* The step is handler h committing an edit.
CommitsEdit(h) == hs[h].op = "edit" /\ hs[h].pc = "commit" /\ hs'[h].pc = "done"

\* C2: a message is created with version 1; its version never decreases; each
\* successful edit raises it by exactly 1, replaces the body and sets
\* edited_at; nothing else changes the version.
C2_VersionGrowsByOnePerEdit ==
  [][ /\ \A m \in DOMAIN db' \ DOMAIN db : db'[m].version = 1
      /\ \A m \in DOMAIN db :
           /\ m \in DOMAIN db'
           /\ db'[m].version >= db[m].version
           /\ db'[m].version # db[m].version =>
                \E h \in Handlers : CommitsEdit(h) /\ hs[h].message_id = m
      /\ \A h \in Handlers : CommitsEdit(h) =>
           LET m == hs[h].message_id
           IN  /\ hs'[h].status = 200
               /\ db'[m].version = db[m].version + 1
               /\ db'[m].body = hs[h].obj.body
               /\ db'[m].edited_at # NoTime ]_vars

\* C3: an edit by the author whose expected version differs from the version
\* the message has when the handler reads it is refused with 409, the detail
\* naming that current version, and the row is left as it is.
C3_StaleEditRefused ==
  \A h \in Handlers, m \in DOMAIN db, body \in RawBodies, ver \in 1..MaxVersion :
    (Free(h) /\ ver # db[m].version) =>
      /\ ENABLED ( /\ update_select(h, db[m].user_id, m, body, ver)
                   /\ hs'[h].pc = "done"
                   /\ hs'[h].status = 409
                   /\ hs'[h].detail = db[m].version
                   /\ db' = db )
      /\ ~ENABLED ( /\ update_select(h, db[m].user_id, m, body, ver)
                    /\ hs'[h].status # 409 )

\* An author's edit was refused with 409 naming the row's version, after the
\* row had been edited.
C3_Witness ==
  \E h \in Handlers :
    /\ EditDone(h)
    /\ hs[h].status = 409
    /\ hs[h].message_id \in DOMAIN db
    /\ hs[h].detail = db[hs[h].message_id].version
    /\ hs[h].detail > hs[h].version

\* C4: no committed state of the store holds a message row whose thread_id is
\* null: a root message's row has thread_id equal to its own id from the
\* moment it exists.
C4_RootThreadIdNeverNull ==
  \A m \in DOMAIN db : db[m].thread_id # NoId

\* --------------------------------------------- claims: connection registry

\* The organization connection c was registered with by connect.
RegisteredOrg(c) == UserOrg(streams[c].user)

\* C5: a broadcast to organization A never puts its event on the outbox of a
\* connection registered with another organization: every event of an
\* organization broadcast found in an outbox is addressed to the organization
\* of that outbox's connection.
C5_OrgBroadcastStaysInOrg ==
  \A c \in DOMAIN queues :
    \A i \in 1..Len(queues[c]) :
      LET call == queues[c][i].data
      IN  call.kind = "org" => call.target = RegisteredOrg(c)

\* A finished broadcast to an organization has left its event on a connection
\* of that organization while a connection of another organization is
\* registered with an empty outbox.
C5_Witness ==
  \E b \in BroadcastIds, c1, c2 \in Range(connections) :
    /\ bc[b].pc = "done"
    /\ connection_orgs[c1] # connection_orgs[c2]
    /\ \E i \in 1..Len(queues[c1]) :
         /\ queues[c1][i].data.call = b
         /\ queues[c1][i].data.kind = "org"
         /\ queues[c1][i].data.target = connection_orgs[c1]
    /\ queues[c2] = <<>>

\* C6: a broadcast that reaches an outbox holding its full capacity drops that
\* delivery and goes on: no broadcast is ever suspended on an outbox.
C6_FullOutboxDeliveryDropped ==
  \A b \in BroadcastIds : bc[b].pc # "waiting"

\* C7: every broadcast call returns even if no stream consumer ever takes
\* another item from its outbox.
C7_BroadcastReturns ==
  \A b \in BroadcastIds : (bc[b].pc = "waiting") ~> (bc[b].pc = "done")

\* Connection c appears in none of the registry's three indexes.
Absent(R, c) ==
  /\ c \notin Range(R.connections)
  /\ c \notin DOMAIN R.connection_orgs
  /\ \A u \in DOMAIN R.user_connections : c \notin Range(R.user_connections[u])

\* C8: after disconnect(c, u) for a connection registered by connect(c, u, o),
\* c is in none of connections, connection_orgs and the lists of
\* user_connections, no user is left with an empty list, and a second
\* disconnect(c, u) leaves the registry as it is.
C8_DisconnectRemovesAndRepeats ==
  \A c \in StreamIds :
    streams[c].pc = "closed" =>
      /\ Absent(Registry, c)
      /\ \A u \in DOMAIN user_connections : user_connections[u] # <<>>
      /\ disconnect(Registry, c, streams[c].user) = Registry

\* A connection has been disconnected while another connection of the same
\* user stays registered.
C8_Witness ==
  \E c, d \in StreamIds :
    /\ streams[c].pc = "closed" /\ streams[c].first # <<>>
    /\ streams[d].pc = "streaming" /\ streams[d].user = streams[c].user
    /\ user_connections[streams[c].user] = <<d>>

\* C9: a stream that has connected and has ended, whichever way, has been
\* disconnected: the registry holds entries for exactly the streams that are
\* still streaming.
C9_EndedStreamsLeaveNoEntry ==
  LET live == {s \in StreamIds : streams[s].pc = "streaming"}
  IN  /\ Range(connections) = live
      /\ DOMAIN connection_orgs = live
      /\ UNION {Range(user_connections[u]) : u \in DOMAIN user_connections} = live

\* A stream has ended after a broadcast reached its outbox, and another is
\* still registered.
C9_Witness ==
  \E s, t \in StreamIds :
    /\ streams[s].pc = "closed" /\ streams[s].first # <<>>
    /\ streams[t].pc = "streaming"
    /\ \E b \in BroadcastIds : bc[b].pc = "done"
    /\ queues[t] # <<>>

\* C10: the first item a stream emits is the presenceUpdate event with the
\* connecting user's id, display name and status "online", and a stream in
\* its main loop (the only place that takes from the outbox) has emitted it.
C10_PresenceFirst ==
  \A s \in StreamIds :
    /\ streams[s].pc = "streaming" => streams[s].first # <<>>
    /\ streams[s].first # <<>> =>
         LET item == streams[s].first[1]
         IN  /\ item.event = "presenceUpdate"
             /\ item.data.user_id = streams[s].user
             /\ item.data.display_name = DisplayName(streams[s].user)
             /\ item.data.status = "online"

\* A stream has emitted its presence event and a broadcast's event waits in
\* its outbox.
C10_Witness ==
  \E s \in StreamIds :
    /\ streams[s].pc = "streaming"
    /\ streams[s].first # <<>>
    /\ queues[s] # <<>>

\* C11: a stream emits the events of its outbox in the order they were
\* enqueued: every take by a running stream yields the oldest item of the
\* outbox and leaves the others in place, and every enqueue adds behind the
\* items already there.
C11_EmittedInEnqueueOrder ==
  [][\A s \in StreamIds :
       (streams[s].pc = "streaming" /\ streams'[s].pc = "streaming") =>
         /\ (Len(queues'[s]) < Len(queues[s]) \/ streams'[s].last # streams[s].last) =>
              /\ queues[s] # <<>>
              /\ streams'[s].last = Head(queues[s]).data.call
              /\ queues'[s] = Tail(queues[s])
         /\ Len(queues'[s]) > Len(queues[s]) =>
              SubSeq(queues'[s], 1, Len(queues[s])) = queues[s]]_vars

\* A stream has emitted an event of its outbox while two that were enqueued
\* behind it are still waiting there.
C11_Witness ==
  \E s \in StreamIds :
    /\ streams[s].pc = "streaming"
    /\ streams[s].last # 0
    /\ Len(queues[s]) >= 2

\* ------------------------------------------------ claims: audit and events

\* The audit rows of message m with the given action.
AuditRowsOf(log, m, action) ==
  {i \in DOMAIN log : /\ log[i].entity_type = "message"
                      /\ log[i].entity_id = m
                      /\ log[i].action = action}

\* Handler h answers its request in this step.
Responds(h, op) == hs[h].op = op /\ hs[h].pc # "done" /\ hs'[h].pc = "done"

\* C12: each successful edit through PATCH /messages/{id} adds exactly one
\* audit row, with entity_type "message", action "update", the editor as user
\* and the version and body before and after the edit in old_values and
\* new_values; a rejected edit adds none.
C12_EditAddsOneAuditRow ==
  [][\A h \in Handlers :
       /\ (CommitsEdit(h) /\ hs'[h].status = 200) =>
            LET m == hs[h].message_id
            IN  /\ Len(audit') = Len(audit) + 1
                /\ SubSeq(audit', 1, Len(audit)) = audit
                /\ LET row == audit'[Len(audit')]
                   IN  /\ row.entity_type = "message"
                       /\ row.entity_id = m
                       /\ row.action = "update"
                       /\ row.user_id = hs[h].user
                       /\ row.old_values.version = db[m].version
                       /\ row.new_values.version = db'[m].version
                       /\ row.old_values.body = db[m].body
                       /\ row.new_values.body = db'[m].body
       /\ (Responds(h, "edit") /\ hs'[h].status # 200) => audit' = audit]_vars

\* C13: each successful creation through POST /messages adds exactly one
\* audit row with action "create" for the new message, tagged with the
\* author's organization.
C13_CreateAddsOneAuditRow ==
  [][\A h \in Handlers :
       (Responds(h, "create") /\ hs'[h].status = 201) =>
         LET m == hs[h].message_id
             rows == AuditRowsOf(audit', m, "create")
         IN  /\ Cardinality(rows) = 1
             /\ AuditRowsOf(audit, m, "create") = {}
             /\ \A i \in rows : audit'[i].org_id = UserOrg(db'[m].user_id)]_vars

\* C14: when a REST creation (edit) has succeeded, a "newMessage"
\* ("messageUpdated") event for the message, carrying its committed version,
\* is on the outbox of every connection registered for the author's
\* organization.
C14_MutationIsPublished ==
  [][\A h \in Handlers :
       LET created == Responds(h, "create") /\ hs'[h].status = 201
           edited == Responds(h, "edit") /\ hs'[h].status = 200
           m == hs[h].message_id
       IN  (created \/ edited) =>
             \A c \in Range(connections) :
               connection_orgs[c] = UserOrg(db'[m].user_id) =>
                 \E i \in DOMAIN queues'[c] :
                   /\ queues'[c][i].event =
                        (IF created THEN "newMessage" ELSE "messageUpdated")
                   /\ queues'[c][i].data.id = m
                   /\ queues'[c][i].data.version = db'[m].version]_vars

\* The rows of the audit log tagged with organization org.
RowsOfOrg(org) == {i \in DOMAIN audit : audit[i].org_id = org}

\* C15: what an admin of organization A gets from the audit list and from
\* the per-entity history holds only rows whose org_id is A, and the list's
\* total_count counts no row of another organization, whatever the filters,
\* limit and offset and whatever rows other organizations hold.
C15_AuditAnswersStayInOrg ==
  (reply.kind \in {"audit_list", "audit_history"} /\ reply.status = 200) =>
    /\ \A i \in DOMAIN reply.audit_logs :
         reply.audit_logs[i].org_id = UserOrg(reply.user)
    /\ reply.total_count <= Cardinality(RowsOfOrg(UserOrg(reply.user)))

\* An admin got rows of the own organization while the log holds a row of
\* another organization with the same entity_type and entity_id.
C15_Witness ==
  /\ reply.kind \in {"audit_list", "audit_history"}
  /\ reply.status = 200
  /\ reply.audit_logs # <<>>
  /\ \E i \in DOMAIN audit :
       /\ audit[i].org_id # UserOrg(reply.user)
       /\ audit[i].entity_type = reply.audit_logs[1].entity_type
       /\ audit[i].entity_id = reply.audit_logs[1].entity_id

\* C17: post_message_logic commits the message and its "create" audit row
\* together or not at all: in every committed state a message it created
\* exists exactly when its audit row does (all messages of this
\* specification are created by it), also after a call in which staging the
\* audit row failed.
C17_MessageIffAuditRow ==
  \A m \in 1..MaxMessages :
    /\ (m \in DOMAIN db) <=> (AuditRowsOf(audit, m, "create") # {})
    /\ Cardinality(AuditRowsOf(audit, m, "create")) <= 1

\* The tool has posted a message: the message and its audit row are there.
C17_Witness ==
  /\ reply.kind = "post_message"
  /\ reply.ok
  /\ reply.id \in DOMAIN db
  /\ \E i \in AuditRowsOf(audit, reply.id, "create") :
       audit[i].org_id = UserOrg(db[reply.id].user_id)

\* Query q matches a message of another organization than u's and none of
\* u's organization.
OnlyElsewhere(q, u) ==
  /\ \E m \in DOMAIN db :
       Matches(q, db[m].body) /\ ChannelOrg(db[m].channel_id) # UserOrg(u)
  /\ \A m \in DOMAIN db :
       Matches(q, db[m].body) => ChannelOrg(db[m].channel_id) # UserOrg(u)

\* C16: the results of a search by a user of organization P (REST
\* search_messages and MCP search_logic) hold only messages whose channel
\* belongs to P, and an unscoped search for a term found only in messages of
\* another organization answers with an empty result.
C16_SearchStaysInOrg ==
  [][(reply' # reply /\ reply'.kind \in {"search", "mcp_search"}) =>
       /\ \A i \in DOMAIN reply'.results :
            ChannelOrg(db[reply'.results[i]].channel_id) = UserOrg(reply'.user)
       /\ (reply'.scope = Null /\ OnlyElsewhere(reply'.q, reply'.user)) =>
            (reply'.status = 200 /\ reply'.results = <<>>)]_vars

\* ----------------------------------------- claims: editing and creating

\* C18: a message's body only changes in the commit of an edit issued by the
\* message's author, whose organization owns the message's channel; an edit
\* requested by another user of that organization is answered 403 and leaves
\* the message table as it is.
C18_OnlyAuthorChangesBody ==
  [][/\ \A m \in DOMAIN db :
          db'[m].body # db[m].body =>
            \E h \in Handlers :
              /\ CommitsEdit(h)
              /\ hs[h].message_id = m
              /\ hs[h].user = db[m].user_id
              /\ UserOrg(hs[h].user) = ChannelOrg(db[m].channel_id)
     /\ \A h \in Handlers, u \in Users, m \in DOMAIN db, body \in RawBodies,
           ver \in 1..MaxVersion :
          ( /\ u # db[m].user_id
            /\ UserOrg(u) = ChannelOrg(db[m].channel_id)
            /\ update_select(h, u, m, body, ver) ) =>
            (hs'[h].status = 403 /\ db' = db)]_vars

\* An edit was refused with 403 on a message its author has edited.
C18_Witness ==
  \E h \in Handlers :
    /\ EditDone(h)
    /\ hs[h].status = 403
    /\ hs[h].message_id \in DOMAIN db
    /\ db[hs[h].message_id].version > 1
    /\ db[hs[h].message_id].body = <<"y">>

\* C19: update_message answers an editor the same way for a message id that
\* does not exist and for one that exists in a channel of another
\* organization: 404 with the detail "Message not found", whatever the body,
\* the version and the author, and nothing is changed.
C19_MissingAndForeignAlike ==
  [][\A h \in Handlers, u \in Users, m \in MsgIds, body \in RawBodies,
        ver \in 1..MaxVersion :
       ( /\ update_select(h, u, m, body, ver)
         /\ \/ m \notin DOMAIN db
            \/ ChannelOrg(db[m].channel_id) # UserOrg(u) ) =>
         /\ hs'[h].status = 404
         /\ hs'[h].msg = MessageNotFound
         /\ hs'[h].detail = 0
         /\ hs'[h].pc = "done"
         /\ UNCHANGED <<db, nextId, audit>>]_vars

\* One edit was refused for a message that was not there, another for a
\* message of another organization, with the same answer.
C19_Witness ==
  \E h1, h2 \in Handlers :
    /\ EditDone(h1) /\ EditDone(h2)
    /\ hs[h1].found /\ ~hs[h2].found
    /\ hs[h1].status = 404 /\ hs[h2].status = 404
    /\ hs[h1].msg = hs[h2].msg

\* C20: create_message answers 404 and persists nothing when the channel id
\* names no channel of the author's organization, or when a thread_id is
\* given and no message with that id exists in the same channel; a reply
\* answered 201 is stored and returned with the given thread_id and version 1.
C20_CreateNotFoundAndReply ==
  [][/\ \A h \in Handlers, u \in Posters, ch \in ThreadChannelIds,
           body \in RawBodies, tid \in {NoId} \cup PostIds :
          ( /\ create_begin(h, u, ch, body, tid)
            /\ \/ ch \notin Channels
               \/ ChannelOrg(ch) # UserOrg(u)
               \/ /\ tid # NoId
                  /\ ~\E m \in DOMAIN db : m = tid /\ db[m].channel_id = ch ) =>
            /\ hs'[h].status = 404
            /\ hs'[h].pc = "done"
            /\ hs'[h].msg \in {ChannelNotFound, ThreadNotFound}
            /\ UNCHANGED <<db, nextId, audit>>
     /\ \A h \in Handlers :
          ( /\ hs[h].op = "create" /\ hs[h].pc = "insert"
            /\ hs[h].obj.thread_id # NoId
            /\ hs'[h].pc = "done" /\ hs'[h].status = 201 ) =>
            LET m == hs[h].message_id
            IN  /\ m \notin DOMAIN db /\ m \in DOMAIN db'
                /\ db'[m].thread_id = hs[h].obj.thread_id
                /\ db'[m].thread_id \in DOMAIN db
                /\ db[db'[m].thread_id].channel_id = db'[m].channel_id
                /\ db'[m].version = 1
                /\ hs'[h].detail = 1]_vars

\* A reply was stored in a thread, and another reply was refused with
\* "Thread not found in this channel".
C20_Witness ==
  \E m \in DOMAIN db, h \in Handlers :
    /\ db[m].thread_id # m
    /\ db[m].thread_id \in DOMAIN db
    /\ db[m].version = 1
    /\ hs[h].op = "create" /\ hs[h].pc = "done"
    /\ hs[h].status = 404 /\ hs[h].msg = ThreadNotFound

\* ------------------------------------------------ claims: validation

\* C21: a message creation whose body is empty after trimming is rejected
\* and persists nothing, through create_message and through the post_message
\* tool, and no stored message has an empty body.
C21_BlankBodyRejected ==
  [][/\ \A h \in Handlers, u \in Posters, ch \in ChannelIds, body \in AnyBodies :
          (Strip(body) = <<>> /\ create_begin(h, u, ch, body, NoId)) =>
            /\ hs'[h].pc = "done"
            /\ hs'[h].status \in {400, 422}
            /\ UNCHANGED <<db, nextId, audit>>
     /\ \A u \in McpUsers, ch \in ChannelIds, body \in AnyBodies :
          (Strip(body) = <<>> /\ post_message_logic(u, ch, body, "none")) =>
            /\ ~reply'.ok
            /\ UNCHANGED <<db, nextId, audit>>
     /\ \A m \in DOMAIN db' : db'[m].body # <<>>]_vars

\* C22: track_update stages one "update" row whose old_values and new_values
\* hold exactly the fields whose value differs between the before snapshot
\* and the entity's after snapshot, with the before and the after value; when
\* no field differs it stages nothing and returns nothing.
C22_TrackUpdateDiff ==
  reply.kind = "track_update" =>
    LET before == reply.old_data
        after == entity_to_dict(reply.entity)
        differing == {f \in DOMAIN after : before[f] # after[f]}
    IN  IF differing = {}
        THEN reply.staged = <<>> /\ reply.returned = Null
        ELSE /\ Len(reply.staged) = 1
             /\ reply.returned = reply.staged[1]
             /\ reply.returned.action = "update"
             /\ reply.returned.entity_id = reply.entity.id
             /\ DOMAIN reply.returned.old_values = differing
             /\ DOMAIN reply.returned.new_values = differing
             /\ \A f \in differing :
                  /\ reply.returned.old_values[f] = before[f]
                  /\ reply.returned.new_values[f] = after[f]

\* track_update has staged a row for a change of some but not all fields.
C22_Witness ==
  /\ reply.kind = "track_update"
  /\ reply.staged # <<>>
  /\ DOMAIN reply.returned.new_values = {"body", "version", "edited_at"}

\* C23: create_audit_log fails for an action outside the recognized set, for
\* an empty or whitespace-only entity type and for an entity type of more
\* than 50 characters, and in each case nothing is added to the session.
C23_InvalidAuditParamsRejected ==
  [][\A entity_type \in CallTypes, action \in CallActions :
       ( /\ CreateAuditLog(entity_type, action)
         /\ \/ action \notin {"create", "update", "delete", "search"}
            \/ entity_type \in {"", " "}
            \/ Len(entity_type) > 50 ) =>
         /\ reply'.raised
         /\ reply'.status = 400
         /\ reply'.session = Pending
         /\ audit' = audit]_vars

\* A call with an entity type of 51 characters was refused in a transaction
\* that holds a row of an accepted call, and a type of 50 characters was
\* accepted.
C23_Witness ==
  /\ reply.kind = "create_audit_log"
  /\ reply.raised
  /\ Len(reply.entity_type) = 51
  /\ Len(reply.session) = 1
  /\ Len(reply.session[1].entity_type) = 50

\* C24: search_logic, for a non-empty query and an existing user, answers
\* with a list and commits exactly one audit row, of entity_type "search" and
\* action "search", of the user and the user's organization.
C24_SearchIsAudited ==
  [][\A u \in McpUsers, q \in Queries :
       search_logic(u, q) =>
         /\ reply'.status = 200
         /\ Len(audit') = Len(audit) + 1
         /\ SubSeq(audit', 1, Len(audit)) = audit
         /\ audit'[Len(audit')].entity_type = "search"
         /\ audit'[Len(audit')].action = "search"
         /\ audit'[Len(audit')].user_id = u
         /\ audit'[Len(audit')].org_id = UserOrg(u)]_vars

C26_ChannelNameUniquePerOrg ==
  [][/\ \A u \in Users, raw \in RawNames :
          (create_channel(u, raw) /\ Strip(raw) # <<>>) =>
            IF \E c \in channels : c.org_id = UserOrg(u) /\ c.name = Strip(raw)
            THEN reply'.status = 409 /\ channels' = channels
            ELSE /\ reply'.status = 201
                 /\ \E c \in channels' \ channels :
                      /\ c.org_id = UserOrg(u) /\ c.name = Strip(raw)
                      /\ channels' = channels \cup {c}
     /\ \A c1, c2 \in channels' :
          (c1.org_id = c2.org_id /\ c1.name = c2.name) => c1 = c2]_vars

\* Two organizations have a channel of the same name, and a request for that
\* name, written with spaces around it, was answered 409.
C26_Witness ==
  /\ reply.kind = "create_channel"
  /\ reply.status = 409
  /\ reply.raw # Strip(reply.raw)
  /\ \E c1, c2 \in channels :
       c1.name = Strip(reply.raw) /\ c2.name = c1.name /\ c1.org_id # c2.org_id

\* ------------------------------------------------- claims: frames, threads

\* C27: the commit of an edit leaves the id, thread_id, channel_id, user_id
\* and created_at of the edited message and every other message as they
\* were, and adds and removes no message.
C27_EditFrame ==
  [][\A h \in Handlers :
       CommitsEdit(h) =>
         LET m == hs[h].message_id
         IN  /\ DOMAIN db' = DOMAIN db
             /\ db'[m].id = db[m].id
             /\ db'[m].thread_id = db[m].thread_id
             /\ db'[m].channel_id = db[m].channel_id
             /\ db'[m].user_id = db[m].user_id
             /\ db'[m].created_at = db[m].created_at
             /\ \A k \in DOMAIN db \ {m} : db'[k] = db[k]]_vars

\* An edit of one of two messages has succeeded; the other is unedited.
C27_Witness ==
  \E h \in Handlers, k \in DOMAIN db :
    /\ EditDone(h) /\ hs[h].status = 200
    /\ hs[h].message_id \in DOMAIN db
    /\ k # hs[h].message_id
    /\ db[hs[h].message_id].version > 1
    /\ db[k].version = 1

\* C28: the thread_id of every stored message names a root message of the
\* same channel, a message whose thread_id is its own id; no reply is stored
\* whose thread_id is the id of another reply. (A root between its INSERT and
\* the UPDATE that sets its thread_id is left aside here, as a message and as
\* the root named.)
C28_ThreadIdNamesRoot ==
  \A m \in DOMAIN db :
    db[m].thread_id # NoId =>
      /\ db[m].thread_id \in DOMAIN db
      /\ db[db[m].thread_id].channel_id = db[m].channel_id
      /\ db[db[m].thread_id].thread_id \in {db[m].thread_id, NoId}

\* ------------------------------------------------ claims: registry calls

\* The connections registered when call b took its snapshot (or, in the step
\* that starts it, when it starts).
RegisteredAtStart(b) ==
  IF bc[b].pc = "idle" THEN Range(connections) ELSE Range(bc[b].snapshot)

\* C29: broadcast_to_all, broadcast_to_user, broadcast_to_org and
\* send_heartbeat iterate over a snapshot taken before their first enqueue:
\* no step of such a call fails, and none enqueues onto a connection that was
\* not registered when the call started.
C29_IterationOverSnapshot ==
  [][\A b \in BroadcastIds :
       bc'[b] # bc[b] =>
         /\ bc'[b].pc # "failed"
         /\ \A c \in DOMAIN queues' :
              (c \in DOMAIN queues /\ Len(queues'[c]) > Len(queues[c])) =>
                c \in RegisteredAtStart(b)]_vars

\* C30: after the presence event, a step of an open stream either takes the
\* item at the head of its outbox and yields it unchanged, or yields one
\* heartbeat comment with nothing taken from the outbox, and the stream waits
\* again, or the stream closes; an item taken is yielded, and nothing else is.
C30_StreamLoopYields ==
  [][\A s \in StreamIds :
       ( /\ streams[s].pc = "streaming"
         /\ streams'[s] # streams[s] \/ Len(queues'[s]) < Len(queues[s]) ) =>
         \/ streams'[s].pc = "closed"
         \/ /\ streams'[s].pc = "streaming"
            /\ queues[s] # <<>>
            /\ queues'[s] = Tail(queues[s])
            /\ streams'[s].out = <<Head(queues[s])>>
         \/ /\ streams'[s].pc = "streaming"
            /\ queues'[s] = queues[s]
            /\ Len(streams'[s].out) = 1
            /\ DOMAIN streams'[s].out[1] = {"comment", "timestamp"}
            /\ streams'[s].out[1].comment = "heartbeat"]_vars

\* A stream that has yielded an event of its outbox has then yielded a
\* heartbeat, and a later event waits in its outbox.
C30_Witness ==
  \E s \in StreamIds :
    /\ streams[s].pc = "streaming"
    /\ streams[s].last # 0
    /\ streams[s].out = <<Heartbeat>>
    /\ queues[s] # <<>>

\* The step of call b has gone past position k of the snapshot it iterates
\* over.
Passed(b, k) == bc'[b].pc = "done" \/ (bc'[b].pc = "waiting" /\ k < bc'[b].i)

\* C31: after connect(c, u, o), made by the stream that owns c, connections
\* holds c with an empty outbox, connection_orgs maps c to o and c is listed
\* under u in user_connections; and the outbox the stream got back is the one
\* of connections: a broadcast to all that reaches the registered connection
\* c while it has room appends its event to that outbox, and what the stream
\* takes next is the oldest item of it.
C31_ConnectRegistersOutbox ==
  [][/\ \A s \in StreamIds, u \in Subscribers :
          StreamOpen(s, u) =>
            /\ s \in Range(connections')
            /\ queues'[s] = <<>>
            /\ s \in DOMAIN connection_orgs' /\ connection_orgs'[s] = UserOrg(u)
            /\ u \in DOMAIN user_connections'
            /\ s \in Range(user_connections'[u])
     /\ \A b \in BroadcastIds, e \in EventTypes, k \in 1..Len(connections) :
          ( /\ Broadcast(b, <<"all", Null>>, e)
            /\ Passed(b, k)
            /\ ~Full(queues[connections[k]]) ) =>
            queues'[connections[k]] =
              Append(queues[connections[k]],
                     format_sse_message(e, [call |-> b, kind |-> "all", target |-> Null]))
     /\ \A s \in StreamIds :
          (streams[s].pc = "streaming" /\ streams'[s].last # streams[s].last
             /\ streams'[s].pc = "streaming") =>
            /\ s \in Range(connections)
            /\ streams'[s].out = <<Head(queues[s])>>]_vars

\* A stream has taken a broadcast's event from the outbox connect gave it,
\* and a stream of the other organization has just connected behind it.
C31_Witness ==
  \E s, t \in StreamIds :
    /\ connections = <<t, s>>
    /\ streams[t].pc = "streaming" /\ streams[t].last # 0
    /\ streams[s].pc = "streaming" /\ queues[s] = <<>>
    /\ connection_orgs[s] # connection_orgs[t]
    /\ user_connections[streams[s].user] = <<s>>

\* C32: whatever the interleaving of broadcasts, heartbeats and stream
\* consumers, no outbox ever holds more items than the capacity it was made
\* with.
C32_OutboxWithinCapacity ==
  \A c \in DOMAIN queues : Len(queues[c]) <= QueueMaxSize

\* An outbox holds a broadcast's event and a heartbeat and is full, and a
\* further heartbeat waits for room in it.
C32_Witness ==
  \E c \in Range(connections), b \in BroadcastIds :
    /\ Len(queues[c]) = QueueMaxSize
    /\ Heartbeat \in Range(queues[c])
    /\ \E i \in 1..Len(queues[c]) : queues[c][i] # Heartbeat
    /\ bc[b].pc = "waiting" /\ bc[b].kind = "heartbeat" /\ bc[b].pos = c

\* The event of call b made with the given scope and event type.
EventOf(b, scope, event_type) ==
  format_sse_message(event_type, [call |-> b, kind |-> scope[1], target |-> scope[2]])

C35_AtMostOncePerCall ==
  \A c \in DOMAIN queues, b \in BroadcastIds :
    Cardinality({i \in 1..Len(queues[c]) : queues[c][i].data.call = b}) <= 1

\* ------------------------------------------------- claims: thread reads

\* The ids of a set in rising order of created_at, rows of equal created_at
\* in the order they were inserted.
RECURSIVE InCreationOrder(_, _)
InCreationOrder(table, ids) ==
  IF ids = {} THEN <<>>
  ELSE LET first == CHOOSE x \in ids : \A y \in ids :
                      \/ table[x].created_at < table[y].created_at
                      \/ table[x].created_at = table[y].created_at /\ x <= y
       IN  <<table[first]>> \o InCreationOrder(table, ids \ {first})

\* C36: get_thread_messages answers not-found when the channel is outside the
\* caller's organization or holds no message with the given id; otherwise it
\* returns the messages of the channel whose thread_id is that id, in rising
\* order of creation time, those of equal creation time in the order they
\* were created, cut to offset and limit.
C36_ThreadInCreationOrder ==
  reply.kind = "thread" =>
    LET inOrg == reply.channel_id \in Channels /\ ChannelOrg(reply.channel_id) = UserOrg(reply.user)
        named == \E m \in DOMAIN db : m = reply.thread_id /\ db[m].channel_id = reply.channel_id
        ids == {m \in DOMAIN db : /\ db[m].thread_id = reply.thread_id
                                  /\ db[m].channel_id = reply.channel_id}
    IN  IF ~inOrg \/ ~named THEN reply.status = 404
        ELSE /\ reply.status = 200
             /\ reply.results = Page(InCreationOrder(db, ids), reply.offset, reply.limit)

\* ------------------------------------------- claims: registry indexes

\* The places <<u, i>> of user_connections that hold connection c.
ListedAt(c) ==
  {p \in UNION {{<<u, i>> : i \in DOMAIN user_connections[u]} :
                 u \in DOMAIN user_connections} :
     user_connections[p[1]][p[2]] = c}

\* C37: while every stream connects once, under an id of its own, and
\* disconnects with the user it connected with, the three indexes agree: the
\* keys of connections are the keys of connection_orgs and the ids listed in
\* user_connections, every id is listed once, under one user, and no user
\* has an empty list.
C37_IndexesAgree ==
  /\ Range(connections) = DOMAIN connection_orgs
  /\ Range(connections) =
       UNION {Range(user_connections[u]) : u \in DOMAIN user_connections}
  /\ \A c \in Range(connections) : Cardinality(ListedAt(c)) = 1
  /\ \A u \in DOMAIN user_connections : user_connections[u] # <<>>

\* Two connections of one user are registered, the older one with a broadcast
\* suspended on its full outbox.
C37_Witness ==
  \E u \in DOMAIN user_connections, b \in BroadcastIds :
    /\ Len(user_connections[u]) = 2
    /\ Len(connections) = 2
    /\ bc[b].pc = "waiting"
    /\ Full(queues[user_connections[u][1]])

\* ------------------------------------------- claims: order of the checks

\* C38: update_message, for a request that passed validation, checks in a
\* fixed order: the message exists and its channel is of the editor's
\* organization, else 404 "Message not found"; the editor is the author, else
\* 403; the expected version is the current one, else 409 naming the current
\* version. So whatever the expected version, a non-author of the
\* organization gets the 403, which names no version, and a user of another
\* organization gets the 404 of a missing message.
C38_ChecksInOrder ==
  [][\A h \in Handlers, u \in Users, m \in PostIds, body \in RawBodies,
        ver \in 1..MaxVersion :
       update_select(h, u, m, body, ver) =>
         LET visible == m \in DOMAIN db /\ ChannelOrg(db[m].channel_id) = UserOrg(u)
             r == hs'[h]
         IN  IF ~visible
             THEN r.pc = "done" /\ r.status = 404 /\ r.msg = MessageNotFound /\ r.detail = 0
             ELSE IF db[m].user_id # u
             THEN r.pc = "done" /\ r.status = 403 /\ r.msg = NotYourMessage /\ r.detail = 0
             ELSE IF db[m].version # ver
             THEN /\ r.pc = "done" /\ r.status = 409 /\ r.msg = ModifiedByAnother
                  /\ r.detail = db[m].version
             ELSE r.pc = "commit"]_vars

\* A member of the author's organization who is not the author has asked to
\* edit an edited message with a stale expected version and got the 403.
C38_Witness ==
  \E h \in Handlers :
    /\ hs[h].op = "edit" /\ hs[h].pc = "done" /\ hs[h].status = 403
    /\ hs[h].message_id \in DOMAIN db
    /\ db[hs[h].message_id].version > 1
    /\ hs[h].version < db[hs[h].message_id].version

\* ------------------------------------------------ claims: the post tool

\* C39: post_message_logic makes the root message visible with its thread_id
\* set: in every committed state each message it created (all messages of
\* this specification) has thread_id equal to its id, and the id it returns
\* names such a message; no reader finds the message with thread_id null.
C39_ToolRootInOneCommit ==
  /\ \A m \in DOMAIN db : db[m].id = m /\ db[m].thread_id = m
  /\ (reply.kind = "post_message" /\ reply.ok) =>
       reply.id \in DOMAIN db /\ db[reply.id].thread_id = reply.id

\* The tool has posted a message and returned its id, and the message is in
\* the store as the root of its own thread, with the body trimmed.
C39_Witness ==
  /\ reply.kind = "post_message"
  /\ reply.ok
  /\ reply.id \in DOMAIN db
  /\ db[reply.id].thread_id = reply.id
  /\ db[reply.id].body = <<"y">>

\* ------------------------------------------------ claims: frame effects

\* Connection c is listed under user u.
Listed(uc, u, c) == u \in DOMAIN uc /\ c \in Range(uc[u])

\* C40: the disconnect(c, u) of an ending stream leaves every other
\* connection as it is, its outbox, its organization tag, its registration
\* and the lists it is in, and leaves the list of every user other than u as it
\* is; and a step of a broadcast changes outboxes only: connections,
\* connection_orgs and user_connections stay as they are.
C40_OthersUntouched ==
  [][/\ \A s \in StreamIds, how \in ExitPaths :
          StreamExit(s, how) =>
            /\ \A c \in DOMAIN queues \ {s} :
                 /\ c \in DOMAIN queues' /\ queues'[c] = queues[c]
                 /\ (c \in Range(connections')) <=> (c \in Range(connections))
                 /\ c \in DOMAIN connection_orgs =>
                      c \in DOMAIN connection_orgs'
                        /\ connection_orgs'[c] = connection_orgs[c]
                 /\ \A u \in Subscribers :
                      Listed(user_connections', u, c) <=> Listed(user_connections, u, c)
            /\ \A u \in Subscribers \ {streams[s].user} :
                 /\ (u \in DOMAIN user_connections') <=> (u \in DOMAIN user_connections)
                 /\ u \in DOMAIN user_connections =>
                      user_connections'[u] = user_connections[u]
     /\ \A b \in BroadcastIds :
          bc'[b] # bc[b] =>
            /\ connections' = connections
            /\ connection_orgs' = connection_orgs
            /\ user_connections' = user_connections
            /\ DOMAIN queues' = DOMAIN queues]_vars

\* A stream has ended while another connection of its user stays registered
\* with a full outbox and a broadcast suspended on it.
C40_Witness ==
  \E c, d \in StreamIds, b \in BroadcastIds :
    /\ streams[c].pc = "closed"
    /\ streams[d].pc = "streaming" /\ streams[d].user = streams[c].user
    /\ Listed(user_connections, streams[d].user, d)
    /\ Full(queues[d])
    /\ bc[b].pc = "waiting"

====
